---- MODULE Spec2Model ----
(***************************************************************************)
(* Model of the streaming transcription session of                         *)
(* src/services/geminiService.ts (transcribeAudioStream).                   *)
(*                                                                         *)
(* One session is one promise executor: its local variables, the two       *)
(* browser timers it arms, the live transport it talks to and the calls it *)
(* makes to the UI callbacks.  Strings are sequences of one-character      *)
(* strings, so that trim and join are computed, not assumed.  A slice of   *)
(* the audio buffer is the pair of its offsets.  A progress value p is the *)
(* pair <<n, d>> standing for the number (n / d) * 100.                     *)
(*                                                                         *)
(* The second part models the orchestrator of src/App.tsx                  *)
(* (handleVideoSelect) with the stages it awaits: audio extraction and     *)
(* resampling (src/utils/audioUtils.ts), the single-shot Whisper adapter   *)
(* (src/services/openaiService.ts) and summarization.  There the streaming *)
(* session is seen through its promise only; Spec has its detail.          *)
(*                                                                         *)
(* The third part models the pure functions of src/utils/audioUtils.ts:    *)
(* each action of UtilSpec is one call, with its argument and its result.  *)
(* A sample is the numerator of a fraction over SampleScale; a number the  *)
(* code computes in binary64 is a sequence of bits with an exponent.       *)
(***************************************************************************)
EXTENDS Integers, Sequences, FiniteSets, TLC

VARIABLES
    audioLength,                 \* audioDataBuffer.length
    pc,                          \* position of the executor around `await ai.live.connect`
    session,                     \* TRUE once `session` has been assigned
    transport,                   \* state of the live connection
    activeTimers,                \* timers the browser still holds
    intervalId,
    sessionClosureTimeoutId,
    currentOffset,
    sentAudioLength,
    allInputAudioSent,
    finalTranscriptionSegments,
    latestNonFinalText,
    promise,                     \* the promise returned by transcribeAudioStream
    sent,                        \* chunks passed to session.sendRealtimeInput
    progressLog,                 \* values passed to onProgressUpdate
    transcriptLog,               \* chunks passed to onTranscriptionUpdate
    closeCalls,                  \* number of session.close() calls
    terminal,                    \* invocations of cleanupAndReject / cleanupAndResolve
    received,                    \* inbound messages handled so far
    lastEvent,                   \* the handler that ran last
    appState,                    \* AppState of the orchestrator
    apc,                         \* the await handleVideoSelect is suspended at
    runs,                        \* runs of handleVideoSelect started so far
    service,                     \* selectedTranscriptionService of the run
    openaiApiKey,                \* TRUE when a non-empty key was entered
    file,                        \* the file of the run: its audio track
    audioBuffer,                 \* result of extraction, None before
    resampled,                   \* how resampleAudioBuffer produced its result
    totalAudioDuration,          \* <<samples, rate>> standing for samples / rate
    transcriptionResult,         \* fullTranscription of the backend, None before
    summarizeArg,                \* the text summarizeText was called with
    summary,
    errorMessages,               \* non-null messages given to setErrorMessage
    failed,                      \* the stage whose failure reached the catch
    appProgress,                 \* values given to setTranscriptionProgress
    appUpdates,                  \* chunks given to handleTranscriptionUpdate
    stages,                      \* stages invoked in this run, in order
    stateLog,                    \* values given to setAppState in this run
    whisper,                     \* the promise of transcribeWithWhisper
    response,                    \* the response of the Whisper request
    openContexts,                \* AudioContexts created and not closed
    call                         \* the last call of a function of audioUtils.ts

sessionVars == <<audioLength, pc, session, transport, activeTimers, intervalId,
          sessionClosureTimeoutId, currentOffset, sentAudioLength,
          allInputAudioSent, finalTranscriptionSegments, latestNonFinalText,
          promise, sent, progressLog, transcriptLog, closeCalls, terminal,
          received, lastEvent>>

appVars == <<appState, apc, runs, service, openaiApiKey, file, audioBuffer,
             resampled, totalAudioDuration, transcriptionResult, summarizeArg,
             summary, errorMessages, failed, appProgress, appUpdates, stages,
             stateLog, whisper, response, openContexts>>

utilVars == <<call>>

vars == <<sessionVars, appVars, utilVars>>

----------------------------------------------------------------------------
(* Bounds of the model *)

MaxChunks == 2

MaxMessages == 2

MaxRuns == 2

MaxSamples == 441

MaxLength == 147

MaxWavFrames == 2

MaxPcmSamples == 2

MaxBytes == 3

(* Program constants *)

AUDIO_CHUNK_SIZE == 4096

Undefined == 0

IntervalTimer == 1

TimeoutTimer == 2

TARGET_SAMPLE_RATE == 16000

(* Buffer lengths around the chunk boundaries, up to MaxChunks chunks. *)
AudioLengths ==
    { n * AUDIO_CHUNK_SIZE + d : n \in 0..(MaxChunks - 1),
                                 d \in {0, 1, AUDIO_CHUNK_SIZE - 1} }
    \cup { MaxChunks * AUDIO_CHUNK_SIZE }

(* Texts an inputTranscription may carry. *)
Texts == { <<>>, <<"a">>, <<"b">>, <<" ">> }

(* An inbound LiveServerMessage: whether serverContent.inputTranscription  *)
(* is present, its text, and serverContent.turnComplete.                   *)
Messages ==
    { [hasTranscription |-> FALSE, text |-> <<>>, turnComplete |-> tc] :
          tc \in BOOLEAN }
    \cup { [hasTranscription |-> TRUE, text |-> t, turnComplete |-> tc] :
          t \in Texts, tc \in BOOLEAN }

ErrorMessages == { "e" }

(* What the handler that ran last was, and the event it was given *)
Event(name, arg) == [name |-> name, arg |-> arg]

SendError == <<"sendError">>

ConnectError == <<"connectError">>

----------------------------------------------------------------------------
(* String helpers: String.prototype.trim and Array.prototype.join(' ') *)

Min(a, b) == IF a <= b THEN a ELSE b

RECURSIVE TrimStart(_)
TrimStart(s) ==
    IF s = <<>> THEN <<>>
    ELSE IF Head(s) = " " THEN TrimStart(Tail(s)) ELSE s

RECURSIVE TrimEnd(_)
TrimEnd(s) ==
    IF s = <<>> THEN <<>>
    ELSE IF s[Len(s)] = " " THEN TrimEnd(SubSeq(s, 1, Len(s) - 1)) ELSE s

Trim(s) == TrimEnd(TrimStart(s))

RECURSIVE Join(_)
Join(segs) ==
    IF segs = <<>> THEN <<>>
    ELSE IF Len(segs) = 1 THEN segs[1]
    ELSE segs[1] \o <<" ">> \o Join(Tail(segs))

----------------------------------------------------------------------------
(* The promise: resolve and reject settle it once, later calls are ignored *)

Pending == [state |-> "pending", value |-> <<>>]

Settle(p, st, v) ==
    IF p.state = "pending" THEN [state |-> st, value |-> v] ELSE p

(* session.close() on the transport: starts the closing handshake of an    *)
(* open connection, and does nothing on one that is closing or closed.     *)
CloseTransport(t) == IF t = "open" THEN "closing" ELSE t

----------------------------------------------------------------------------
None == <<"none">>

NoBuffer == [length |-> 0, sampleRate |-> 0]

NoResponse == [ok |-> FALSE, status |-> "none", body |-> <<>>]

(* No function of audioUtils.ts has been called *)
NoCall == [op |-> "none", arg |-> <<>>, out |-> <<>>]

(* The orchestrator before any file was selected (App.tsx useState) *)
AppStart ==
    /\ appState = "IDLE"
    /\ apc = "idle"
    /\ runs = 0
    /\ service = "GEMINI_LIVE"
    /\ openaiApiKey = FALSE
    /\ file = NoBuffer
    /\ audioBuffer = NoBuffer
    /\ resampled = "no"
    /\ totalAudioDuration = <<0, 1>>
    /\ transcriptionResult = None
    /\ summarizeArg = None
    /\ summary = <<>>
    /\ errorMessages = <<>>
    /\ failed = "none"
    /\ appProgress = <<>>
    /\ appUpdates = <<>>
    /\ stages = <<>>
    /\ stateLog = <<>>
    /\ whisper = Pending
    /\ response = NoResponse
    /\ openContexts = 0

(* The locals of transcribeAudioStream when the executor starts *)
SessionStart ==
    /\ pc = "connecting"
    /\ session = FALSE
    /\ transport = "connecting"
    /\ activeTimers = {}
    /\ intervalId = Undefined
    /\ sessionClosureTimeoutId = Undefined
    /\ currentOffset = 0
    /\ sentAudioLength = 0
    /\ allInputAudioSent = FALSE
    /\ finalTranscriptionSegments = <<>>
    /\ latestNonFinalText = <<>>
    /\ promise = Pending
    /\ sent = <<>>
    /\ progressLog = <<>>
    /\ transcriptLog = <<>>
    /\ closeCalls = 0
    /\ terminal = <<>>
    /\ received = 0
    /\ lastEvent = Event("start", <<>>)

Init ==
    /\ audioLength \in AudioLengths
    /\ SessionStart
    /\ AppStart
    /\ call = NoCall

(* cleanup that leaves the pacing interval running *)
cleanupKeepsInterval ==
    /\ activeTimers' = activeTimers \ {sessionClosureTimeoutId}
    /\ intervalId' = intervalId
    /\ sessionClosureTimeoutId' = Undefined

(* cleanup that leaves the fallback timeout armed *)
cleanupKeepsTimeout ==
    /\ activeTimers' = activeTimers \ {intervalId}
    /\ intervalId' = Undefined
    /\ sessionClosureTimeoutId' = sessionClosureTimeoutId

(* cleanup: clear both timers and forget their ids *)
cleanup ==
    /\ activeTimers' = (activeTimers \ {intervalId}) \ {sessionClosureTimeoutId}
    /\ intervalId' = Undefined
    /\ sessionClosureTimeoutId' = Undefined

(* cleanupAndReject that cleans up and closes but never calls reject *)
cleanupAndRejectNoReject(error, t) ==
    /\ activeTimers' = (activeTimers \ {intervalId}) \ {sessionClosureTimeoutId}
    /\ intervalId' = Undefined
    /\ sessionClosureTimeoutId' = Undefined
    /\ closeCalls' = IF session THEN closeCalls + 1 ELSE closeCalls
    /\ transport' = IF session THEN CloseTransport(t) ELSE t
    /\ promise' = promise
    /\ terminal' = Append(terminal,
                          [routine |-> "cleanupAndReject", arg |-> error,
                           effect |-> session])
    /\ UNCHANGED progressLog

(* cleanupAndReject(error), called while the transport is in state t *)
cleanupAndReject(error, t) ==
    /\ cleanup
    /\ closeCalls' = IF session THEN closeCalls + 1 ELSE closeCalls
    /\ transport' = IF session THEN CloseTransport(t) ELSE t
    /\ promise' = Settle(promise, "rejected", error)
    /\ terminal' = Append(terminal,
                          [routine |-> "cleanupAndReject", arg |-> error,
                           effect |-> session \/ promise.state = "pending"])
    /\ UNCHANGED progressLog

(* cleanupAndResolve that resolves without clearing the timers *)
cleanupAndResolveNoCleanup(fullTranscription) ==
    /\ UNCHANGED <<activeTimers, intervalId, sessionClosureTimeoutId>>
    /\ progressLog' = Append(progressLog, <<1, 1>>)
    /\ promise' = Settle(promise, "resolved", fullTranscription)
    /\ terminal' = Append(terminal,
                          [routine |-> "cleanupAndResolve",
                           arg |-> fullTranscription, effect |-> TRUE])
    /\ UNCHANGED closeCalls

(* cleanupAndResolve(fullTranscription) *)
cleanupAndResolve(fullTranscription) ==
    /\ cleanup
    /\ progressLog' = Append(progressLog, <<1, 1>>)
    /\ promise' = Settle(promise, "resolved", fullTranscription)
    /\ terminal' = Append(terminal,
                          [routine |-> "cleanupAndResolve",
                           arg |-> fullTranscription, effect |-> TRUE])
    /\ UNCHANGED closeCalls

(* A catch block that swallows the connection error and resolves empty *)
ConnectFailResolves ==
    /\ UNCHANGED <<appVars, utilVars>>
    /\ pc = "connecting"
    /\ transport = "connecting"
    /\ pc' = "failed"
    /\ transport' = "closed"
    /\ activeTimers' = (activeTimers \ {intervalId}) \ {sessionClosureTimeoutId}
    /\ intervalId' = Undefined
    /\ sessionClosureTimeoutId' = Undefined
    /\ progressLog' = Append(progressLog, <<1, 1>>)
    /\ promise' = Settle(promise, "resolved", <<>>)
    /\ terminal' = Append(terminal,
                          [routine |-> "cleanupAndResolve", arg |-> <<>>,
                           effect |-> TRUE])
    /\ lastEvent' = Event("connectfail", <<>>)
    /\ UNCHANGED <<audioLength, session, currentOffset, sentAudioLength,
                   allInputAudioSent, finalTranscriptionSegments,
                   latestNonFinalText, sent, transcriptLog, received,
                   closeCalls>>

(* The connect call throws: the catch block of the executor *)
ConnectFail ==
    /\ UNCHANGED <<appVars, utilVars>>
    /\ pc = "connecting"
    /\ transport = "connecting"
    /\ pc' = "failed"
    /\ cleanupAndReject(ConnectError, "closed")
    /\ lastEvent' = Event("connectfail", <<>>)
    /\ UNCHANGED <<audioLength, session, currentOffset, sentAudioLength,
                   allInputAudioSent, finalTranscriptionSegments,
                   latestNonFinalText, sent, transcriptLog, received>>

(* onopen: arm the pacing interval *)
OnOpen ==
    /\ UNCHANGED <<appVars, utilVars>>
    /\ pc = "connecting"
    /\ transport = "connecting"
    /\ pc' = "opened"
    /\ transport' = "open"
    /\ currentOffset' = 0
    /\ intervalId' = IntervalTimer
    /\ activeTimers' = activeTimers \cup {IntervalTimer}
    /\ lastEvent' = Event("open", <<>>)
    /\ UNCHANGED <<audioLength, session, sessionClosureTimeoutId,
                   sentAudioLength, allInputAudioSent,
                   finalTranscriptionSegments, latestNonFinalText, promise,
                   sent, progressLog, transcriptLog, closeCalls, terminal,
                   received>>

(* `session = await ai.live.connect(...)` completes: the continuation runs *)
(* as a microtask right after onopen, before any timer or transport event. *)
ConnectReturn ==
    /\ UNCHANGED <<appVars, utilVars>>
    /\ pc = "opened"
    /\ pc' = "connected"
    /\ session' = TRUE
    /\ lastEvent' = Event("connected", <<>>)
    /\ UNCHANGED <<audioLength, transport, activeTimers, intervalId,
                   sessionClosureTimeoutId, currentOffset, sentAudioLength,
                   allInputAudioSent, finalTranscriptionSegments,
                   latestNonFinalText, promise, sent, progressLog,
                   transcriptLog, closeCalls, terminal, received>>

(* An end offset that is not clamped to the length of the buffer *)
EndOffsetNoClamp(offset) == offset + AUDIO_CHUNK_SIZE

(* The chunk of a pacing tick: audioDataBuffer.slice(offset, endOffset) *)
EndOffset(offset) == Min(offset + AUDIO_CHUNK_SIZE, audioLength)

(* A slice that always starts at the beginning of the buffer *)
SliceFromStart(offset, endOffset) == [from |-> 0, to |-> endOffset]

Slice(offset, endOffset) == [from |-> offset, to |-> endOffset]

(* A drain branch entered while the last chunk is still to be sent *)
TickDrainEarly ==
    /\ currentOffset + AUDIO_CHUNK_SIZE >= audioLength
    /\ activeTimers' =
          (IF intervalId # Undefined THEN activeTimers \ {intervalId}
                                     ELSE activeTimers) \cup {TimeoutTimer}
    /\ allInputAudioSent' = TRUE
    /\ sessionClosureTimeoutId' = TimeoutTimer
    /\ lastEvent' = Event("drain", <<>>)
    /\ UNCHANGED <<intervalId, currentOffset, sentAudioLength, sent,
                   progressLog, promise, closeCalls, terminal, transport>>

(* A drain branch that stops the interval without arming the fallback *)
TickDrainNoFallback ==
    /\ currentOffset >= audioLength
    /\ activeTimers' =
          (IF intervalId # Undefined THEN activeTimers \ {intervalId}
                                     ELSE activeTimers)
    /\ allInputAudioSent' = TRUE
    /\ lastEvent' = Event("drain", <<>>)
    /\ UNCHANGED <<intervalId, sessionClosureTimeoutId, currentOffset,
                   sentAudioLength, sent, progressLog, promise, closeCalls,
                   terminal, transport>>

(* Pacing tick, all input sent: stop the interval, arm the fallback timeout *)
TickDrain ==
    /\ currentOffset >= audioLength
    /\ activeTimers' =
          (IF intervalId # Undefined THEN activeTimers \ {intervalId}
                                     ELSE activeTimers) \cup {TimeoutTimer}
    /\ allInputAudioSent' = TRUE
    /\ sessionClosureTimeoutId' = TimeoutTimer
    /\ lastEvent' = Event("drain", <<>>)
    /\ UNCHANGED <<intervalId, currentOffset, sentAudioLength, sent,
                   progressLog, promise, closeCalls, terminal, transport>>

(* A progress value that reports the part still to be sent *)
ProgressRemaining(sentLength, totalLength) ==
    <<totalLength - sentLength, totalLength>>

(* (sentAudioLength / audioDataBuffer.length) * 100, as the pair of the    *)
(* numerator and the denominator of the fraction                           *)
Progress(sentLength, totalLength) == <<sentLength, totalLength>>

(* Pacing tick, samples remain: slice, send, advance, report progress;     *)
(* a send that throws goes to cleanupAndReject.                            *)
TickSend ==
    /\ currentOffset < audioLength
    /\ \E throws \in BOOLEAN :
          IF session /\ throws
          THEN /\ cleanupAndReject(SendError, transport)
               /\ lastEvent' = Event("sendfail", <<>>)
               /\ UNCHANGED <<currentOffset, sentAudioLength, sent,
                              allInputAudioSent>>
          ELSE /\ sent' = IF session
                          THEN Append(sent, Slice(currentOffset,
                                                  EndOffset(currentOffset)))
                          ELSE sent
               /\ currentOffset' = EndOffset(currentOffset)
               /\ sentAudioLength' = currentOffset'
               /\ progressLog' = Append(progressLog,
                                        Progress(sentAudioLength', audioLength))
               /\ lastEvent' = Event("tick", <<>>)
               /\ UNCHANGED <<activeTimers, intervalId,
                              sessionClosureTimeoutId, allInputAudioSent,
                              promise, closeCalls, terminal, transport>>

(* The callback of window.setInterval *)
Tick ==
    /\ UNCHANGED <<appVars, utilVars>>
    /\ IntervalTimer \in activeTimers
    /\ pc = "connected"
    /\ (TickDrain \/ TickSend)
    /\ UNCHANGED <<audioLength, pc, session, finalTranscriptionSegments,
                   latestNonFinalText, transcriptLog, received>>

(* A fallback callback that lets the timer expire without closing *)
FallbackFireNoClose ==
    /\ UNCHANGED <<appVars, utilVars>>
    /\ TimeoutTimer \in activeTimers
    /\ activeTimers' = activeTimers \ {TimeoutTimer}
    /\ lastEvent' = Event("fallback", <<>>)
    /\ UNCHANGED <<audioLength, pc, session, transport, intervalId,
                   sessionClosureTimeoutId, currentOffset, sentAudioLength,
                   allInputAudioSent, finalTranscriptionSegments,
                   latestNonFinalText, promise, sent, progressLog,
                   transcriptLog, closeCalls, terminal, received>>

(* A fallback callback that closes and also resolves on the spot *)
FallbackFireResolves ==
    /\ UNCHANGED <<appVars, utilVars>>
    /\ TimeoutTimer \in activeTimers
    /\ activeTimers' = {}
    /\ intervalId' = Undefined
    /\ sessionClosureTimeoutId' = Undefined
    /\ closeCalls' = IF session THEN closeCalls + 1 ELSE closeCalls
    /\ transport' = IF session THEN CloseTransport(transport) ELSE transport
    /\ progressLog' = Append(progressLog, <<1, 1>>)
    /\ promise' = Settle(promise, "resolved",
                         Trim(Join(finalTranscriptionSegments)))
    /\ terminal' = Append(terminal,
                          [routine |-> "cleanupAndResolve",
                           arg |-> Trim(Join(finalTranscriptionSegments)),
                           effect |-> TRUE])
    /\ lastEvent' = Event("fallback", <<>>)
    /\ UNCHANGED <<audioLength, pc, session, currentOffset, sentAudioLength,
                   allInputAudioSent, finalTranscriptionSegments,
                   latestNonFinalText, sent, transcriptLog, received>>

(* The callback of window.setTimeout: force-close the session *)
FallbackFire ==
    /\ UNCHANGED <<appVars, utilVars>>
    /\ TimeoutTimer \in activeTimers
    /\ activeTimers' = activeTimers \ {TimeoutTimer}
    /\ closeCalls' = IF session THEN closeCalls + 1 ELSE closeCalls
    /\ transport' = IF session THEN CloseTransport(transport) ELSE transport
    /\ lastEvent' = Event("fallback", <<>>)
    /\ UNCHANGED <<audioLength, pc, session, intervalId,
                   sessionClosureTimeoutId, currentOffset, sentAudioLength,
                   allInputAudioSent, finalTranscriptionSegments,
                   latestNonFinalText, promise, sent, progressLog,
                   transcriptLog, terminal, received>>

(* onmessage, the text side: accumulate, commit on turnComplete, display *)
Accumulated(pending, m) ==
    IF m.hasTranscription THEN pending \o m.text ELSE pending

(* A commit at every message that carries text, turn boundary or not *)
CommitsAlways(text, m) == Trim(text) # <<>>

Commits(text, m) == m.turnComplete /\ Trim(text) # <<>>

(* A commit that pushes the pending text as it is, untrimmed *)
SegmentsAfterUntrimmed(segs, pending, m) ==
    IF Commits(Accumulated(pending, m), m)
    THEN Append(segs, Accumulated(pending, m))
    ELSE segs

(* A commit that extends the last finalized segment instead of appending *)
SegmentsAfterMerged(segs, pending, m) ==
    IF Commits(Accumulated(pending, m), m)
    THEN IF segs = <<>> THEN <<Trim(Accumulated(pending, m))>>
         ELSE [segs EXCEPT ![Len(segs)] =
                  @ \o <<" ">> \o Trim(Accumulated(pending, m))]
    ELSE segs

SegmentsAfter(segs, pending, m) ==
    IF Commits(Accumulated(pending, m), m)
    THEN Append(segs, Trim(Accumulated(pending, m)))
    ELSE segs

PendingAfter(pending, m) ==
    IF Commits(Accumulated(pending, m), m) THEN <<>>
    ELSE Accumulated(pending, m)

(* A display text that puts the pending fragment first *)
DisplayTextPendingFirst(segs, pending) ==
    (IF pending # <<>> THEN pending \o <<" ">> ELSE <<>>) \o Join(segs)

DisplayText(segs, pending) ==
    Join(segs) \o (IF pending # <<>> THEN <<" ">> \o pending ELSE <<>>)

(* A turn boundary that closes the session whether or not audio remains *)
ClosesOnMessageEarly(m) == m.turnComplete /\ session

(* A turn boundary that never closes the session *)
ClosesOnMessageNever(m) == FALSE

ClosesOnMessage(m) == m.turnComplete /\ allInputAudioSent /\ session

(* A turn boundary that leaves the fallback timeout armed *)
TimersAfterMessageKept(m) == activeTimers

(* clearTimeout(sessionClosureTimeoutId) at a turn boundary *)
TimersAfterMessage(m) ==
    IF m.turnComplete /\ sessionClosureTimeoutId # Undefined
    THEN activeTimers \ {sessionClosureTimeoutId}
    ELSE activeTimers

OnMessage ==
    /\ UNCHANGED <<appVars, utilVars>>
    /\ pc = "connected"
    /\ transport \in {"open", "closing"}
    /\ received < MaxMessages
    /\ \E m \in Messages :
          /\ latestNonFinalText' = PendingAfter(latestNonFinalText, m)
          /\ finalTranscriptionSegments' =
                SegmentsAfter(finalTranscriptionSegments, latestNonFinalText, m)
          /\ activeTimers' = TimersAfterMessage(m)
          /\ closeCalls' = IF ClosesOnMessage(m) THEN closeCalls + 1
                           ELSE closeCalls
          /\ transport' = IF ClosesOnMessage(m) THEN CloseTransport(transport)
                          ELSE transport
          /\ transcriptLog' =
                LET display == DisplayText(finalTranscriptionSegments',
                                           latestNonFinalText')
                IN  IF Trim(display) # <<>> \/ m.turnComplete
                    THEN Append(transcriptLog,
                                [text |-> Trim(display),
                                 isFinal |-> m.turnComplete])
                    ELSE transcriptLog
          /\ lastEvent' = Event("message", m)
    /\ received' = received + 1
    /\ UNCHANGED <<audioLength, pc, session, intervalId,
                   sessionClosureTimeoutId, currentOffset, sentAudioLength,
                   allInputAudioSent, promise, sent, progressLog, terminal>>

(* onerror: the connection has failed; only its close event can follow *)
WrappedError(msg) == <<"Transcription failed: ", msg>>

OnError ==
    /\ UNCHANGED <<appVars, utilVars>>
    /\ pc # "opened"
    /\ transport \in {"connecting", "open", "closing"}
    /\ \E msg \in ErrorMessages :
          /\ cleanupAndReject(WrappedError(msg), "failed")
          /\ lastEvent' = Event("error", msg)
    /\ UNCHANGED <<audioLength, pc, session, currentOffset, sentAudioLength,
                   allInputAudioSent, finalTranscriptionSegments,
                   latestNonFinalText, sent, transcriptLog, received>>

(* A result that also takes the pending text *)
FullTranscriptionWithPending(segs) ==
    Trim(Join(segs) \o (IF latestNonFinalText # <<>>
                        THEN <<" ">> \o latestNonFinalText ELSE <<>>))

(* onclose: the single place that resolves, with the joined segments *)
FullTranscription(segs) == Trim(Join(segs))

(* An onclose that rejects when the audio was not sent to the end *)
oncloseRejectsIncomplete ==
    /\ UNCHANGED <<appVars, utilVars>>
    /\ transport' = "closed"
    /\ IF currentOffset < audioLength
       THEN /\ cleanup
            /\ promise' = Settle(promise, "rejected", <<"incomplete">>)
            /\ terminal' = Append(terminal,
                                  [routine |-> "cleanupAndReject",
                                   arg |-> <<"incomplete">>,
                                   effect |-> promise.state = "pending"])
            /\ UNCHANGED <<progressLog, closeCalls>>
       ELSE cleanupAndResolve(FullTranscription(finalTranscriptionSegments))
    /\ lastEvent' = Event("close", <<>>)
    /\ UNCHANGED <<audioLength, pc, session, currentOffset, sentAudioLength,
                   allInputAudioSent, finalTranscriptionSegments,
                   latestNonFinalText, sent, transcriptLog, received>>

onclose ==
    /\ UNCHANGED <<appVars, utilVars>>
    /\ transport' = "closed"
    /\ cleanupAndResolve(FullTranscription(finalTranscriptionSegments))
    /\ lastEvent' = Event("close", <<>>)
    /\ UNCHANGED <<audioLength, pc, session, currentOffset, sentAudioLength,
                   allInputAudioSent, finalTranscriptionSegments,
                   latestNonFinalText, sent, transcriptLog, received>>

(* The close event that ends a closing handshake or a failed connection *)
OnCloseAck ==
    /\ transport \in {"closing", "failed"}
    /\ onclose

(* The close event of a connection the server ends on its own *)
OnServerClose ==
    /\ pc = "connected"
    /\ transport = "open"
    /\ onclose

Next ==
    \/ ConnectFail
    \/ OnOpen
    \/ ConnectReturn
    \/ Tick
    \/ FallbackFire
    \/ OnMessage
    \/ OnError
    \/ OnCloseAck
    \/ OnServerClose

Spec == Init /\ [][Next]_vars

(* The timers fire and the transport acknowledges a close or a failure *)
Fairness ==
    /\ WF_vars(ConnectReturn)
    /\ WF_vars(Tick)
    /\ WF_vars(FallbackFire)
    /\ WF_vars(OnCloseAck)

LiveSpec == Init /\ [][Next]_vars /\ Fairness

TypeOK ==
    /\ audioLength \in AudioLengths
    /\ pc \in {"connecting", "opened", "connected", "failed"}
    /\ session \in BOOLEAN
    /\ transport \in {"connecting", "open", "closing", "failed", "closed"}
    /\ activeTimers \subseteq {IntervalTimer, TimeoutTimer}
    /\ intervalId \in {Undefined, IntervalTimer}
    /\ sessionClosureTimeoutId \in {Undefined, TimeoutTimer}
    /\ currentOffset \in 0..audioLength
    /\ sentAudioLength \in 0..audioLength
    /\ allInputAudioSent \in BOOLEAN
    /\ promise.state \in {"pending", "resolved", "rejected"}
    /\ closeCalls \in Nat
    /\ received \in 0..MaxMessages
----------------------------------------------------------------------------
(* The orchestrator: handleVideoSelect of src/App.tsx and its stages *)

Services == {"GEMINI_LIVE", "OPENAI_WHISPER"}

(* The audio track of a selected file: its length and native sample rate *)
Files ==
    { [length |-> l, sampleRate |-> r] :
          l \in {0, MaxSamples}, r \in {TARGET_SAMPLE_RATE, 44100} }

(* Texts a transcription backend may return *)
Transcripts == { <<>>, <<"a">> }

(* Non-success responses of the Whisper endpoint *)
ErrorStatuses == { "401", "500" }

ErrorBodies == { <<>>, <<"b">> }

AppProgress(by, value) == [by |-> by, value |-> value]

(* An error message that leaves out the body of the response *)
WhisperApiErrorNoBody(status, body) == <<"OpenAI API error: ", status>>

(* openaiService.ts:45 *)
WhisperApiError(status, body) ==
    <<"OpenAI API error: ", status, " - ">> \o body

(* openaiService.ts:57 *)
WhisperFailure(message) == <<"Failed to transcribe with Whisper: ">> \o message

KeyMissing ==
    <<"Please provide your OpenAI API key to use Whisper transcription.">>

WhisperKeyMissing ==
    <<"OpenAI API key is missing. Please provide your key to use Whisper.">>

DecodeError ==
    <<"Failed to decode audio from video file. Please ensure it's a valid video format.">>

ReadError == <<"readError">>

RenderError == <<"renderError">>

SummaryError == <<"Failed to generate summary.">>

(* The catch block of handleVideoSelect *)
Catch(stage, message) ==
    /\ errorMessages' =
          Append(errorMessages, <<"Failed to process video: ">> \o message)
    /\ appState' = "ERROR"
    /\ stateLog' = Append(stateLog, "ERROR")
    /\ failed' = stage
    /\ apc' = "done"

(* handleVideoSelect up to its first await: reset the state, check the    *)
(* key, create the AudioContext and start reading the file.                *)
StartRun ==
    /\ UNCHANGED <<sessionVars, utilVars>>
    /\ appState \in {"IDLE", "ERROR"}
    /\ apc \in {"idle", "done"}
    /\ runs < MaxRuns
    /\ runs' = runs + 1
    /\ \E svc \in Services, key \in BOOLEAN, f \in Files :
          /\ service' = svc
          /\ openaiApiKey' = key
          /\ file' = f
          /\ IF svc = "OPENAI_WHISPER" /\ ~key
             THEN /\ errorMessages' =
                        <<<<"Failed to process video: ">> \o KeyMissing>>
                  /\ appState' = "ERROR"
                  /\ stateLog' = <<"UPLOADING", "ERROR">>
                  /\ failed' = "precheck"
                  /\ apc' = "done"
                  /\ stages' = <<>>
                  /\ openContexts' = openContexts
             ELSE /\ errorMessages' = <<>>
                  /\ appState' = "UPLOADING"
                  /\ stateLog' = <<"UPLOADING">>
                  /\ failed' = "none"
                  /\ apc' = "extracting"
                  /\ stages' = <<"extract">>
                  /\ openContexts' = openContexts + 1
    /\ audioBuffer' = NoBuffer
    /\ resampled' = "no"
    /\ totalAudioDuration' = <<0, 1>>
    /\ transcriptionResult' = None
    /\ summarizeArg' = None
    /\ summary' = <<>>
    /\ appProgress' = <<AppProgress("app", 0)>>
    /\ appUpdates' = <<>>
    /\ whisper' = Pending
    /\ response' = NoResponse

(* An extraction failure that is tried again before it is reported *)
ExtractFailRetries ==
    /\ UNCHANGED <<sessionVars, utilVars>>
    /\ apc = "extracting"
    /\ IF Len(stages) < 2
       THEN /\ stages' = Append(stages, "extract")
            /\ openContexts' = openContexts + 1
            /\ UNCHANGED <<errorMessages, appState, stateLog, failed, apc>>
       ELSE /\ Catch("extract", DecodeError)
            /\ UNCHANGED <<stages, openContexts>>
    /\ UNCHANGED <<runs, service, openaiApiKey, file, audioBuffer, resampled,
                   totalAudioDuration, transcriptionResult, summarizeArg,
                   summary, appProgress, appUpdates, whisper, response>>

(* extractAudioBufferFromVideoFile rejects: the file cannot be read, or   *)
(* decodeAudioData fails and the decode error is thrown.                   *)
ExtractFail ==
    /\ UNCHANGED <<sessionVars, utilVars>>
    /\ apc = "extracting"
    /\ \E error \in {ReadError, DecodeError} : Catch("extract", error)
    /\ UNCHANGED <<runs, service, openaiApiKey, file, audioBuffer, resampled,
                   totalAudioDuration, transcriptionResult, summarizeArg,
                   summary, appProgress, appUpdates, stages, whisper,
                   response, openContexts>>

(* extractAudioBufferFromVideoFile resolves; the orchestrator exposes the *)
(* duration, enters TRANSCRIBING and dispatches to the selected backend:   *)
(* resampling first for Gemini Live, the WAV blob and the request for      *)
(* Whisper (transcribeWithWhisper up to its fetch).                        *)
ExtractOk ==
    /\ UNCHANGED <<sessionVars, utilVars>>
    /\ apc = "extracting"
    /\ audioBuffer' = file
    /\ totalAudioDuration' = <<file.length, file.sampleRate>>
    /\ IF service = "GEMINI_LIVE"
       THEN /\ appState' = "TRANSCRIBING"
            /\ stateLog' = Append(stateLog, "TRANSCRIBING")
            /\ stages' = Append(stages, "resample")
            /\ resampled' = IF file.sampleRate = TARGET_SAMPLE_RATE
                            THEN "same" ELSE "rendering"
            /\ apc' = "resampling"
            /\ UNCHANGED <<appProgress, whisper, errorMessages, failed>>
       ELSE /\ stages' = stages \o <<"wav", "whisper">>
            /\ appProgress' = appProgress \o <<AppProgress("app", 1),
                                               AppProgress("whisper", 0)>>
            /\ resampled' = resampled
            /\ IF openaiApiKey
               THEN /\ appState' = "TRANSCRIBING"
                    /\ stateLog' = Append(stateLog, "TRANSCRIBING")
                    /\ apc' = "whisper"
                    /\ UNCHANGED <<whisper, errorMessages, failed>>
               ELSE /\ whisper' = Settle(whisper, "rejected", WhisperKeyMissing)
                    /\ errorMessages' =
                          Append(errorMessages,
                                 <<"Failed to process video: ">>
                                    \o WhisperKeyMissing)
                    /\ appState' = "ERROR"
                    /\ stateLog' = stateLog \o <<"TRANSCRIBING", "ERROR">>
                    /\ failed' = "whisper"
                    /\ apc' = "done"
    /\ UNCHANGED <<runs, service, openaiApiKey, file, transcriptionResult,
                   summarizeArg, summary, appUpdates, response, openContexts>>

(* resampleAudioBuffer resolves; transcribeAudioStream is called *)
ResampleOk ==
    /\ UNCHANGED <<sessionVars, utilVars>>
    /\ apc = "resampling"
    /\ resampled' = IF resampled = "rendering" THEN "rendered" ELSE resampled
    /\ stages' = Append(stages, "stream")
    /\ apc' = "streaming"
    /\ UNCHANGED <<appState, runs, service, openaiApiKey, file, audioBuffer,
                   totalAudioDuration, transcriptionResult, summarizeArg,
                   summary, errorMessages, failed, appProgress, appUpdates,
                   stateLog, whisper, response, openContexts>>

(* The offline rendering of resampleAudioBuffer rejects *)
ResampleFail ==
    /\ UNCHANGED <<sessionVars, utilVars>>
    /\ apc = "resampling"
    /\ resampled = "rendering"
    /\ Catch("resample", RenderError)
    /\ UNCHANGED <<runs, service, openaiApiKey, file, audioBuffer, resampled,
                   totalAudioDuration, transcriptionResult, summarizeArg,
                   summary, appProgress, appUpdates, stages, whisper,
                   response, openContexts>>

(* A continuation that summarizes an empty text, not the result *)
AfterTranscriptionBlank(text) ==
    /\ transcriptionResult' = text
    /\ appState' = "SUMMARIZING"
    /\ stateLog' = Append(stateLog, "SUMMARIZING")
    /\ stages' = Append(stages, "summarize")
    /\ summarizeArg' = <<>>
    /\ apc' = "summarizing"

(* handleVideoSelect after the backend resolved: App.tsx lines 99-104 *)
AfterTranscription(text) ==
    /\ transcriptionResult' = text
    /\ appState' = "SUMMARIZING"
    /\ stateLog' = Append(stateLog, "SUMMARIZING")
    /\ stages' = Append(stages, "summarize")
    /\ summarizeArg' = text
    /\ apc' = "summarizing"

(* transcribeAudioStream resolves: its last progress call is 100 *)
StreamResolve ==
    /\ UNCHANGED <<sessionVars, utilVars>>
    /\ apc = "streaming"
    /\ \E text \in Transcripts : AfterTranscription(text)
    /\ appProgress' = appProgress \o <<AppProgress("gemini", 100),
                                       AppProgress("app", 100)>>
    /\ UNCHANGED <<runs, service, openaiApiKey, file, audioBuffer, resampled,
                   totalAudioDuration, summary, errorMessages, failed,
                   appUpdates, whisper, response, openContexts>>

(* transcribeAudioStream rejects *)
StreamReject ==
    /\ UNCHANGED <<sessionVars, utilVars>>
    /\ apc = "streaming"
    /\ \E error \in {ConnectError, SendError, WrappedError("e")} :
          Catch("stream", error)
    /\ UNCHANGED <<runs, service, openaiApiKey, file, audioBuffer, resampled,
                   totalAudioDuration, transcriptionResult, summarizeArg,
                   summary, appProgress, appUpdates, stages, whisper,
                   response, openContexts>>

(* The Whisper request succeeds: openaiService.ts lines 48-53 *)
WhisperOk ==
    /\ UNCHANGED <<sessionVars, utilVars>>
    /\ apc = "whisper"
    /\ \E text \in Transcripts :
          /\ response' = [ok |-> TRUE, status |-> "200", body |-> text]
          /\ appUpdates' = Append(appUpdates, [text |-> text, isFinal |-> TRUE])
          /\ whisper' = Settle(whisper, "resolved", text)
          /\ AfterTranscription(text)
    /\ appProgress' = appProgress \o <<AppProgress("whisper", 100),
                                       AppProgress("app", 100)>>
    /\ UNCHANGED <<runs, service, openaiApiKey, file, audioBuffer, resampled,
                   totalAudioDuration, summary, errorMessages, failed,
                   openContexts>>

(* The Whisper request returns a non-success response: lines 43-46, 54-57 *)
WhisperHttpError ==
    /\ UNCHANGED <<sessionVars, utilVars>>
    /\ apc = "whisper"
    /\ \E status \in ErrorStatuses, body \in ErrorBodies :
          /\ response' = [ok |-> FALSE, status |-> status, body |-> body]
          /\ whisper' = Settle(whisper, "rejected",
                               WhisperFailure(WhisperApiError(status, body)))
          /\ Catch("whisper", WhisperFailure(WhisperApiError(status, body)))
    /\ appProgress' = Append(appProgress, AppProgress("whisper", 0))
    /\ UNCHANGED <<runs, service, openaiApiKey, file, audioBuffer, resampled,
                   totalAudioDuration, transcriptionResult, summarizeArg,
                   summary, appUpdates, stages, openContexts>>

(* fetch itself rejects: lines 54-57 *)
WhisperNetworkError ==
    /\ UNCHANGED <<sessionVars, utilVars>>
    /\ apc = "whisper"
    /\ whisper' = Settle(whisper, "rejected", WhisperFailure(<<"network">>))
    /\ Catch("whisper", WhisperFailure(<<"network">>))
    /\ appProgress' = Append(appProgress, AppProgress("whisper", 0))
    /\ UNCHANGED <<runs, service, openaiApiKey, file, audioBuffer, resampled,
                   totalAudioDuration, transcriptionResult, summarizeArg,
                   summary, appUpdates, stages, response, openContexts>>

(* summarizeText resolves: the run is COMPLETED *)
SummarizeOk ==
    /\ UNCHANGED <<sessionVars, utilVars>>
    /\ apc = "summarizing"
    /\ summary' = <<"summary: ">> \o summarizeArg
    /\ appState' = "COMPLETED"
    /\ stateLog' = Append(stateLog, "COMPLETED")
    /\ apc' = "done"
    /\ UNCHANGED <<runs, service, openaiApiKey, file, audioBuffer, resampled,
                   totalAudioDuration, transcriptionResult, summarizeArg,
                   errorMessages, failed, appProgress, appUpdates, stages,
                   whisper, response, openContexts>>

(* summarizeText rejects *)
SummarizeFail ==
    /\ UNCHANGED <<sessionVars, utilVars>>
    /\ apc = "summarizing"
    /\ Catch("summarize", SummaryError)
    /\ UNCHANGED <<runs, service, openaiApiKey, file, audioBuffer, resampled,
                   totalAudioDuration, transcriptionResult, summarizeArg,
                   summary, appProgress, appUpdates, stages, whisper,
                   response, openContexts>>

(* handleReset, offered once the run is COMPLETED *)
Reset ==
    /\ UNCHANGED <<sessionVars, utilVars>>
    /\ appState = "COMPLETED"
    /\ appState' = "IDLE"
    /\ stateLog' = Append(stateLog, "IDLE")
    /\ apc' = "idle"
    /\ summary' = <<>>
    /\ errorMessages' = <<>>
    /\ appProgress' = Append(appProgress, AppProgress("app", 0))
    /\ totalAudioDuration' = <<0, 1>>
    /\ UNCHANGED <<runs, service, openaiApiKey, file, audioBuffer, resampled,
                   transcriptionResult, summarizeArg, failed, appUpdates,
                   stages, whisper, response, openContexts>>

AppInit ==
    /\ audioLength = 0
    /\ SessionStart
    /\ AppStart
    /\ call = NoCall

AppNext ==
    \/ StartRun
    \/ ExtractOk
    \/ ExtractFail
    \/ ResampleOk
    \/ ResampleFail
    \/ StreamResolve
    \/ StreamReject
    \/ WhisperOk
    \/ WhisperHttpError
    \/ WhisperNetworkError
    \/ SummarizeOk
    \/ SummarizeFail
    \/ Reset

AppSpec == AppInit /\ [][AppNext]_vars

----------------------------------------------------------------------------
(* src/utils/audioUtils.ts: the arithmetic of JavaScript numbers.  A       *)
(* positive binary64 value is [m |-> limbs, e |-> exponent]: the integer   *)
(* the limbs spell in base Limb, most significant first, times 2^exponent. *)

Precision == 53

LimbBits == 10

Limb == 1024

RECURSIVE Pow2(_)
Pow2(n) == IF n = 0 THEN 1 ELSE 2 * Pow2(n - 1)

(* The number of bits of a non-negative integer *)
RECURSIVE Width(_)
Width(n) == IF n = 0 THEN 0 ELSE 1 + Width(n \div 2)

RECURSIVE ToLimbs(_)
ToLimbs(n) == IF n = 0 THEN <<>> ELSE ToLimbs(n \div Limb) \o <<n % Limb>>

RECURSIVE ToInt(_)
ToInt(limbs) ==
    IF limbs = <<>> THEN 0
    ELSE Limb * ToInt(SubSeq(limbs, 1, Len(limbs) - 1)) + limbs[Len(limbs)]

(* limbs + 1 *)
RECURSIVE Inc(_)
Inc(limbs) ==
    IF limbs = <<>> THEN <<1>>
    ELSE IF limbs[Len(limbs)] < Limb - 1
    THEN [limbs EXCEPT ![Len(limbs)] = @ + 1]
    ELSE Inc(SubSeq(limbs, 1, Len(limbs) - 1)) \o <<0>>

(* The bits of the limbs: those of the first limb and LimbBits for each    *)
(* of the others.                                                          *)
BitLength(limbs) ==
    IF limbs = <<>> THEN 0
    ELSE Width(limbs[1]) + LimbBits * (Len(limbs) - 1)

(* The limbs without their `count` lowest bits *)
ShiftedRight(limbs, count) ==
    LET w == Min(count \div LimbBits, Len(limbs))
        b == count % LimbBits
        q == SubSeq(limbs, 1, Len(limbs) - w)
    IN  [i \in 1..Len(q) |->
            (IF i = 1 THEN 0
             ELSE (q[i - 1] % Pow2(b)) * Pow2(LimbBits - b))
            + q[i] \div Pow2(b)]

(* How the `count` lowest bits of the limbs compare with half a unit of    *)
(* the bit above them: -1 below, 0 equal, 1 above; -2 when they are zero.  *)
CutOff(limbs, count) ==
    LET w == Min(count \div LimbBits, Len(limbs))
        b == count % LimbBits
        q == SubSeq(limbs, 1, Len(limbs) - w)
        dropped == SubSeq(limbs, Len(limbs) - w + 1, Len(limbs))
        top == IF b > 0 /\ q # <<>> THEN q[Len(q)] % Pow2(b) ELSE 0
        lowZero == \A i \in 1..Len(dropped) : dropped[i] = 0
        guard == IF b > 0 THEN top \div Pow2(b - 1)
                 ELSE IF dropped = <<>> THEN 0
                 ELSE dropped[1] \div Pow2(LimbBits - 1)
        sticky == IF b > 0 THEN top % Pow2(b - 1) # 0 \/ ~lowZero
                  ELSE \/ \E i \in 2..Len(dropped) : dropped[i] # 0
                       \/ (dropped # <<>>
                              /\ dropped[1] % Pow2(LimbBits - 1) # 0)
    IN  IF guard = 1 THEN (IF sticky THEN 1 ELSE 0)
        ELSE IF sticky THEN -1 ELSE -2

(* Round to nearest, ties to even *)
RoundedUp(limbs, half) ==
    half = 1 \/ (half = 0 /\ limbs[Len(limbs)] % 2 = 1)

(* The exponent k with d * 2^k <= n < d * 2^(k+1), and n, d scaled so    *)
(* that d <= n < 2d.                                                       *)
RECURSIVE Normalized(_, _, _)
Normalized(n, d, k) ==
    IF n >= 2 * d THEN Normalized(n, 2 * d, k + 1)
    ELSE IF n < d THEN Normalized(2 * n, d, k - 1)
    ELSE [n |-> n, d |-> d, k |-> k]

(* Long division: the next `count` limbs of r / d, and what remains *)
RECURSIVE DivLimbs(_, _, _)
DivLimbs(r, d, count) ==
    IF count = 0 THEN [limbs |-> <<>>, r |-> r]
    ELSE LET rest == DivLimbs((r * Limb) % d, d, count - 1)
         IN  [limbs |-> <<(r * Limb) \div d>> \o rest.limbs, r |-> rest.r]

(* n / d in binary64, for positive integers n and d: three bits, then     *)
(* five limbs, 53 bits in all, rounded on the remainder.                   *)
Div64(n, d) ==
    LET s == Normalized(n, d, 0)
        q == DivLimbs((4 * s.n) % s.d, s.d,
                      (Precision - 3) \div LimbBits)
        m == <<(4 * s.n) \div s.d>> \o q.limbs
        half == IF 2 * q.r > s.d THEN 1 ELSE IF 2 * q.r = s.d THEN 0 ELSE -1
    IN  [m |-> IF RoundedUp(m, half) THEN Inc(m) ELSE m,
         e |-> s.k - (Precision - 1)]

(* limbs * n + carry, for a positive integer n below 2^20 *)
RECURSIVE TimesSmall(_, _, _)
TimesSmall(limbs, n, carry) ==
    IF limbs = <<>> THEN ToLimbs(carry)
    ELSE TimesSmall(SubSeq(limbs, 1, Len(limbs) - 1), n,
                    (limbs[Len(limbs)] * n + carry) \div Limb)
         \o <<(limbs[Len(limbs)] * n + carry) % Limb>>

(* A value rounded to Precision significant bits *)
Round64(x) ==
    LET cut == BitLength(x.m) - Precision
    IN  IF cut <= 0 THEN x
        ELSE [m |-> IF RoundedUp(ShiftedRight(x.m, cut), CutOff(x.m, cut))
                    THEN Inc(ShiftedRight(x.m, cut))
                    ELSE ShiftedRight(x.m, cut),
              e |-> x.e + cut]

(* n * x in binary64, for a positive integer n below 2^20 *)
Times64(n, x) == Round64([m |-> TimesSmall(x.m, n, 0), e |-> x.e])

(* Math.ceil of a positive binary64 value *)
Ceil64(x) ==
    IF x.e >= 0 THEN ToInt(x.m) * Pow2(x.e)
    ELSE ToInt(ShiftedRight(x.m, 0 - x.e))
         + (IF CutOff(x.m, 0 - x.e) = -2 THEN 0 ELSE 1)

----------------------------------------------------------------------------
(* src/utils/audioUtils.ts: resampleAudioBuffer *)

SampleRates == {8000, 14700, TARGET_SAMPLE_RATE, 44100, 48000}

TargetRates == {TARGET_SAMPLE_RATE, 48000}

(* A length computed with the ratio of the rates taken upside down *)
ResampledLengthInverted(originalLength, sourceSampleRate, targetSampleRate) ==
    IF originalLength = 0 THEN 0
    ELSE Ceil64(Times64(originalLength,
                        Div64(sourceSampleRate, targetSampleRate)))

(* Math.ceil(originalLength * (targetSampleRate / sourceSampleRate)) *)
ResampledLength(originalLength, sourceSampleRate, targetSampleRate) ==
    IF originalLength = 0 THEN 0
    ELSE Ceil64(Times64(originalLength,
                        Div64(targetSampleRate, sourceSampleRate)))

(* resampleAudioBuffer: the input itself at the same rate, otherwise the   *)
(* rendering of an OfflineAudioContext of the computed length.             *)
Resampled(buffer, targetSampleRate) ==
    IF buffer.sampleRate = targetSampleRate
    THEN [same |-> TRUE, numberOfChannels |-> buffer.numberOfChannels,
          length |-> buffer.length, sampleRate |-> buffer.sampleRate]
    ELSE [same |-> FALSE, numberOfChannels |-> buffer.numberOfChannels,
          length |-> ResampledLength(buffer.length, buffer.sampleRate,
                                     targetSampleRate),
          sampleRate |-> targetSampleRate]

Resample ==
    /\ UNCHANGED <<sessionVars, appVars>>
    /\ call = NoCall
    /\ \E length \in 0..MaxLength, rate \in SampleRates,
          channels \in {1, 2}, target \in TargetRates :
          LET buffer == [numberOfChannels |-> channels, length |-> length,
                         sampleRate |-> rate]
          IN  call' = [op |-> "resample",
                       arg |-> [buffer |-> buffer, target |-> target],
                       out |-> Resampled(buffer, target)]

----------------------------------------------------------------------------
(* src/utils/audioUtils.ts: encode and decode.  A binary string is the     *)
(* sequence of its UTF-16 code units; a base64 string is a sequence of     *)
(* one-character strings.                                                  *)

Base64Chars ==
    <<"A", "B", "C", "D", "E", "F", "G", "H", "I", "J", "K", "L", "M",
      "N", "O", "P", "Q", "R", "S", "T", "U", "V", "W", "X", "Y", "Z",
      "a", "b", "c", "d", "e", "f", "g", "h", "i", "j", "k", "l", "m",
      "n", "o", "p", "q", "r", "s", "t", "u", "v", "w", "x", "y", "z",
      "0", "1", "2", "3", "4", "5", "6", "7", "8", "9", "+", "/">>

Base64Char(sextet) == Base64Chars[sextet + 1]

Sextet(char) == CHOOSE s \in 0..63 : Base64Chars[s + 1] = char

(* btoa: three bytes give four characters, a rest of one or two bytes is  *)
(* padded with "=".                                                        *)
RECURSIVE Btoa(_)
Btoa(binary) ==
    IF Len(binary) = 0 THEN <<>>
    ELSE IF Len(binary) = 1
    THEN <<Base64Char(binary[1] \div 4), Base64Char((binary[1] % 4) * 16),
           "=", "=">>
    ELSE IF Len(binary) = 2
    THEN <<Base64Char(binary[1] \div 4),
           Base64Char((binary[1] % 4) * 16 + binary[2] \div 16),
           Base64Char((binary[2] % 16) * 4), "=">>
    ELSE <<Base64Char(binary[1] \div 4),
           Base64Char((binary[1] % 4) * 16 + binary[2] \div 16),
           Base64Char((binary[2] % 16) * 4 + binary[3] \div 64),
           Base64Char(binary[3] % 64)>>
         \o Btoa(SubSeq(binary, 4, Len(binary)))

(* atob: four characters give three code units; padding ends the data *)
RECURSIVE Atob(_)
Atob(base64) ==
    IF Len(base64) < 4 THEN <<>>
    ELSE LET a == Sextet(base64[1])
             b == Sextet(base64[2])
         IN  IF base64[3] = "=" THEN <<a * 4 + b \div 16>>
             ELSE IF base64[4] = "="
             THEN <<a * 4 + b \div 16,
                    (b % 16) * 16 + Sextet(base64[3]) \div 4>>
             ELSE <<a * 4 + b \div 16,
                    (b % 16) * 16 + Sextet(base64[3]) \div 4,
                    (Sextet(base64[3]) % 4) * 64 + Sextet(base64[4])>>
                  \o Atob(SubSeq(base64, 5, Len(base64)))

(* String.fromCharCode of a byte, and charCodeAt stored into a Uint8Array *)
FromCharCode(byte) == byte % 65536

ToUint8(code) == code % 256

(* An encode that keeps seven bits of each byte, as a text transform would *)
encodeSevenBit(bytes) ==
    Btoa([i \in 1..Len(bytes) |-> FromCharCode(bytes[i] % 128)])

encode(bytes) == Btoa([i \in 1..Len(bytes) |-> FromCharCode(bytes[i])])

decode(base64) ==
    LET binaryString == Atob(base64)
    IN  [i \in 1..Len(binaryString) |-> ToUint8(binaryString[i])]

ByteValues == {0, 1, 65, 127, 128, 255}

RECURSIVE SeqsUpTo(_, _)
SeqsUpTo(S, n) ==
    IF n = 0 THEN {<<>>}
    ELSE SeqsUpTo(S, n - 1)
         \cup { Append(s, x) : s \in SeqsUpTo(S, n - 1), x \in S }

(* encode as createPcmBlob uses it, and decode applied to its result *)
EncodeDecode ==
    /\ UNCHANGED <<sessionVars, appVars>>
    /\ call = NoCall
    /\ \E bytes \in SeqsUpTo(ByteValues, MaxBytes) :
          call' = [op |-> "encode", arg |-> bytes,
                   out |-> [encoded |-> encode(bytes),
                            decoded |-> decode(encode(bytes))]]

----------------------------------------------------------------------------
(* src/utils/audioUtils.ts: the two conversions of a sample to 16 bits.   *)
(* A sample is n / SampleScale, held as the integer n: these values and    *)
(* their products with 32767 and 32768 are exact in binary32 and binary64. *)

SampleScale == 4

Samples == {-6, -4, -1, 0, 1, 4, 6}

Max(a, b) == IF a >= b THEN a ELSE b

(* Math.min(1, Math.max(-1, s)) *)
Clamped(n) == Min(SampleScale, Max(0 - SampleScale, n))

(* The integer part of a / b, b positive: what ToInt16 keeps of a number *)
Truncated(a, b) == IF a >= 0 THEN a \div b ELSE 0 - ((0 - a) \div b)

(* ToInt16: modulo 2^16, into -32768..32767 *)
ToInt16(v) == ((v + 32768) % 65536) - 32768

(* The two bytes of a 16-bit integer, little-endian *)
Int16Bytes(v) == <<(v % 65536) % 256, (v % 65536) \div 256>>

(* int16[i] = Math.min(1, Math.max(-1, float32Data[i])) * 32767 *)
PcmSample(n) == ToInt16(Truncated(Clamped(n) * 32767, SampleScale))

(* new Uint8Array(int16.buffer) *)
BytesOf(int16) ==
    [k \in 1..(2 * Len(int16)) |->
        Int16Bytes(int16[(k + 1) \div 2])[2 - (k % 2)]]

createPcmBlob(float32Data) ==
    LET int16 == [i \in 1..Len(float32Data) |-> PcmSample(float32Data[i])]
    IN  [int16 |-> int16,
         data |-> encode(BytesOf(int16)),
         mimeType |-> [type |-> "audio/pcm", rate |-> TARGET_SAMPLE_RATE]]

CreatePcmBlob ==
    /\ UNCHANGED <<sessionVars, appVars>>
    /\ call = NoCall
    /\ \E float32Data \in SeqsUpTo(Samples, MaxPcmSamples) :
          call' = [op |-> "pcm", arg |-> float32Data,
                   out |-> createPcmBlob(float32Data)]

----------------------------------------------------------------------------
(* src/utils/audioUtils.ts: createWavBlobFromAudioBuffer *)

CharCode(char) ==
    CASE char = "R" -> 82 [] char = "I" -> 73 [] char = "F" -> 70
      [] char = "W" -> 87 [] char = "A" -> 65 [] char = "V" -> 86
      [] char = "E" -> 69 [] char = "f" -> 102 [] char = "m" -> 109
      [] char = "t" -> 116 [] char = " " -> 32 [] char = "d" -> 100
      [] char = "a" -> 97

(* writeString: one byte per character *)
writeString(string) == [i \in 1..Len(string) |-> CharCode(string[i]) % 256]

(* view.setUint32(offset, v, true) and view.setUint16(offset, v, true) *)
Uint32Bytes(v) ==
    <<v % 256, (v \div 256) % 256, (v \div 65536) % 256,
      (v \div 16777216) % 256>>

Uint16Bytes(v) == <<v % 256, (v \div 256) % 256>>

(* s = max(-1, min(1, x)); s < 0 ? s * 0x8000 : s * 0x7FFF; setInt16 *)
WavSampleSymmetric(n) ==
    ToInt16(Truncated(Clamped(n) * 32767, SampleScale))

WavSample(n) ==
    ToInt16(Truncated(IF Clamped(n) < 0 THEN Clamped(n) * 32768
                                         ELSE Clamped(n) * 32767,
                      SampleScale))

(* A file length that counts the whole file *)
RiffSizeWholeFile(totalLength) == 44 + totalLength

RiffSize(totalLength) == 36 + totalLength

(* The header: 44 bytes *)
WavHeader(buffer, totalLength) ==
    writeString(<<"R", "I", "F", "F">>)
    \o Uint32Bytes(RiffSize(totalLength))
    \o writeString(<<"W", "A", "V", "E">>)
    \o writeString(<<"f", "m", "t", " ">>)
    \o Uint32Bytes(16)
    \o Uint16Bytes(1)
    \o Uint16Bytes(buffer.numberOfChannels)
    \o Uint32Bytes(buffer.sampleRate)
    \o Uint32Bytes(buffer.sampleRate * buffer.numberOfChannels * 2)
    \o Uint16Bytes(buffer.numberOfChannels * 2)
    \o Uint16Bytes(16)
    \o writeString(<<"d", "a", "t", "a">>)
    \o Uint32Bytes(totalLength)

(* The sample loop: channel after channel, each sample at the next two    *)
(* bytes.                                                                  *)
WavData(buffer) ==
    [k \in 1..(2 * buffer.numberOfChannels * buffer.length) |->
        LET written == (k - 1) \div 2
            i == written \div buffer.length
            j == written % buffer.length
        IN  Int16Bytes(WavSample(buffer.channelData[i + 1][j + 1]))
               [2 - (k % 2)]]

createWavBlobFromAudioBuffer(buffer) ==
    LET totalLength == buffer.length * buffer.numberOfChannels * 2
    IN  [bytes |-> WavHeader(buffer, totalLength) \o WavData(buffer),
         type |-> "audio/wav"]

WavSamples == {-6, -4, -1, 1, 4}

CreateWavBlob ==
    /\ UNCHANGED <<sessionVars, appVars>>
    /\ call = NoCall
    /\ \E channels \in {1, 2}, length \in 0..MaxWavFrames,
          rate \in {TARGET_SAMPLE_RATE, 44100} :
          \E channelData \in [1..channels -> [1..length -> WavSamples]] :
             LET buffer == [numberOfChannels |-> channels,
                                 length |-> length, sampleRate |-> rate,
                                 channelData |-> channelData]
             IN  call' = [op |-> "wav", arg |-> buffer,
                          out |-> createWavBlobFromAudioBuffer(buffer)]

UtilInit ==
    /\ audioLength = 0
    /\ SessionStart
    /\ AppStart
    /\ call = NoCall

UtilNext ==
    \/ Resample
    \/ EncodeDecode
    \/ CreatePcmBlob
    \/ CreateWavBlob

UtilSpec == UtilInit /\ [][UtilNext]_vars

----------------------------------------------------------------------------
(* The streaming path end to end: a decoded mono buffer of whole seconds   *)
(* is resampled to TARGET_SAMPLE_RATE and the session streams the result   *)
(* (App.tsx lines 74-83).                                                  *)

DecodedRates == {44100, 48000}

(* Durations of the decoded audio, in seconds *)
Durations == {5, 10}

ScenarioInit ==
    /\ \E rate \in DecodedRates, seconds \in Durations :
          LET buffer == [numberOfChannels |-> 1, length |-> seconds * rate,
                         sampleRate |-> rate]
          IN  call = [op |-> "resample",
                      arg |-> [buffer |-> buffer,
                               target |-> TARGET_SAMPLE_RATE],
                      out |-> Resampled(buffer, TARGET_SAMPLE_RATE)]
    /\ audioLength = call.out.length
    /\ SessionStart
    /\ AppStart

ScenarioSpec == ScenarioInit /\ [][Next]_vars

----------------------------------------------------------------------------
(* Observations on the history of a session, used by the properties below *)

RejectRan ==
    \E i \in 1..Len(terminal) : terminal[i].routine = "cleanupAndReject"

ResolveRuns ==
    Cardinality({ i \in 1..Len(terminal) :
                     terminal[i].routine = "cleanupAndResolve" })

SendFailed ==
    \E i \in 1..Len(terminal) :
        terminal[i].routine = "cleanupAndReject" /\ terminal[i].arg = SendError

TurnCompleteSeen ==
    \E i \in 1..Len(transcriptLog) : transcriptLog[i].isFinal

IsHundred(p) == p[1] = p[2]

(* The segments joined with one space between neighbours, from the left *)
RECURSIVE SpaceJoined(_)
SpaceJoined(segs) ==
    IF Len(segs) = 0 THEN <<>>
    ELSE IF Len(segs) = 1 THEN segs[1]
    ELSE SpaceJoined(SubSeq(segs, 1, Len(segs) - 1)) \o <<" ">> \o segs[Len(segs)]

NonSpace(s) == { i \in 1..Len(s) : s[i] # " " }

(* s without its leading and trailing spaces *)
Stripped(s) ==
    IF NonSpace(s) = {} THEN <<>>
    ELSE LET lo == CHOOSE i \in NonSpace(s) : \A j \in NonSpace(s) : i <= j
             hi == CHOOSE i \in NonSpace(s) : \A j \in NonSpace(s) : j <= i
         IN  SubSeq(s, lo, hi)

----------------------------------------------------------------------------
(* C1: exactly one terminal transition occurs: once a terminal routine    *)
(* (cleanupAndResolve or cleanupAndReject) has run, no later run of a      *)
(* terminal routine has any effect (no callback, no close request, no      *)
(* settlement).                                                            *)
C1_OneTerminalTransition ==
    \A i \in 2..Len(terminal) : ~terminal[i].effect

(* C2: once all input has been sent and the promise is still pending, the *)
(* session eventually resolves with the segments finalized so far, also    *)
(* when no turn-complete message ever arrives (unless a transport error    *)
(* rejects it first).                                                      *)
C2_FallbackResolves ==
    (allInputAudioSent /\ promise.state = "pending")
        ~> \/ /\ promise.state = "resolved"
              /\ promise.value = Stripped(SpaceJoined(finalTranscriptionSegments))
           \/ RejectRan

(* C2 witness: a session resolved through the fallback timer alone *)
C2_Witness ==
    /\ allInputAudioSent
    /\ ~TurnCompleteSeen
    /\ ~RejectRan
    /\ closeCalls = 1
    /\ promise.state = "resolved"

(* C3: when the close path has been taken twice in a session (turn        *)
(* complete and fallback timer), the session resolves once, not twice,    *)
(* and the second close request raises no error: the promise does not     *)
(* reject and the close acknowledgment finds it resolved.                  *)
C3_DoubleCloseSafe ==
    (closeCalls >= 2 /\ ~RejectRan) =>
        /\ ResolveRuns <= 1
        /\ promise.state # "rejected"
        /\ transport \in {"closing", "closed"}
        /\ (transport = "closed" =>
               ResolveRuns = 1 /\ promise.state = "resolved")

(* C3 witness: fallback timer and turn-complete both requested close, and *)
(* the session has resolved.                                               *)
C3_Witness ==
    /\ closeCalls = 2
    /\ TurnCompleteSeen
    /\ ~RejectRan
    /\ transport = "closed"
    /\ promise.state = "resolved"

(* C4: once transport close has been requested, or a close or error event *)
(* has been received, the pacing timer is cancelled and no further chunk  *)
(* is passed to sendRealtimeInput.                                         *)
CloseSeen ==
    \/ closeCalls > 0
    \/ transport \in {"closing", "failed", "closed"}
    \/ terminal # <<>>

C4_NoSendAfterClose ==
    [][CloseSeen => (IntervalTimer \notin activeTimers /\ sent' = sent)]_vars

(* C4 witness: close was requested after some chunk had been sent *)
C4_Witness ==
    closeCalls > 0 /\ sent # <<>> /\ transport = "closing"

(* C5: the chunks sent are consecutive slices of the buffer starting at 0 *)
(* and ending at currentOffset: no gap, no overlap, no reordering.         *)
C5_SentInOrder ==
    /\ currentOffset <= audioLength
    /\ sent = <<>> => currentOffset = 0
    /\ sent # <<>> =>
          /\ sent[1].from = 0
          /\ sent[Len(sent)].to = currentOffset
          /\ \A i \in 1..Len(sent) : sent[i].from < sent[i].to
          /\ \A i \in 1..(Len(sent) - 1) : sent[i + 1].from = sent[i].to

(* C5 witness: two chunks have been sent, the second one shorter *)
C5_Witness ==
    /\ Len(sent) = 2
    /\ sent[2].to - sent[2].from < AUDIO_CHUNK_SIZE
    /\ currentOffset = audioLength

(* C6: the promise resolves only in onclose, with the finalized segments  *)
(* joined by single spaces and trimmed, and onProgressUpdate(100) is the  *)
(* call made just before.                                                  *)
C6_ResolvedOnlyOnClose ==
    [][(promise.state = "pending" /\ promise'.state = "resolved") =>
          /\ lastEvent'.name = "close"
          /\ promise'.value = Stripped(SpaceJoined(finalTranscriptionSegments))
          /\ progressLog' = Append(progressLog, <<1, 1>>)]_vars

(* C6 witness: a session resolved with two finalized segments *)
C6_Witness ==
    promise.state = "resolved" /\ Len(finalTranscriptionSegments) = 2

(* The text pending once the message m has been accumulated *)
PendingWith(m) ==
    IF m.hasTranscription THEN latestNonFinalText \o m.text
    ELSE latestNonFinalText

TurnBoundaryStep ==
    lastEvent'.name = "message" /\ lastEvent'.arg.turnComplete

(* C7 as stated: every turn-boundary event commits exactly one segment,   *)
(* equal to the pending text accumulated so far, and clears the pending   *)
(* buffer.                                                                 *)
C7_CommitsOneSegment ==
    [][TurnBoundaryStep =>
          /\ finalTranscriptionSegments' =
                Append(finalTranscriptionSegments, PendingWith(lastEvent'.arg))
          /\ latestNonFinalText' = <<>>]_vars

(* C7 amended: a turn-boundary event commits exactly one segment, the     *)
(* pending text without its leading and trailing whitespace, and clears   *)
(* the pending buffer, when the pending text is not all whitespace; when  *)
(* it is empty or all whitespace nothing is committed and the pending     *)
(* buffer is kept.  Events that are not turn boundaries commit nothing.    *)
C7_CommitsTrimmedSegment ==
    [][/\ TurnBoundaryStep =>
            IF NonSpace(PendingWith(lastEvent'.arg)) # {}
            THEN /\ finalTranscriptionSegments' =
                       Append(finalTranscriptionSegments,
                              Stripped(PendingWith(lastEvent'.arg)))
                 /\ latestNonFinalText' = <<>>
            ELSE /\ finalTranscriptionSegments' = finalTranscriptionSegments
                 /\ latestNonFinalText' = PendingWith(lastEvent'.arg)
       /\ ~TurnBoundaryStep =>
            finalTranscriptionSegments' = finalTranscriptionSegments]_vars

(* C7 witness: one turn boundary among the events received has committed  *)
(* one segment with text in it.                                            *)
C7_Witness ==
    /\ lastEvent.name = "message"
    /\ lastEvent.arg.turnComplete
    /\ received = 2
    /\ Len(transcriptLog) = 2
    /\ ~transcriptLog[1].isFinal
    /\ Len(finalTranscriptionSegments) = 1
    /\ Len(finalTranscriptionSegments[1]) = 2
    /\ latestNonFinalText = <<>>

(* C8: a send that throws on a pacing tick cancels the pacing timer,      *)
(* requests transport close, rejects the promise with the send error, and *)
(* from then on no chunk is sent and the promise stays rejected.           *)
C8_SendFailureIsFatal ==
    [][SendFailed' =>
          /\ IntervalTimer \notin activeTimers'
          /\ closeCalls' >= 1
          /\ transport' # "open"
          /\ sent' = sent
          /\ promise' = [state |-> "rejected", value |-> SendError]]_vars

(* C8 witness: the second send threw, and the transport has acknowledged  *)
(* the close that followed.                                                *)
C8_Witness ==
    /\ SendFailed
    /\ Len(sent) = 1
    /\ transport = "closed"
    /\ ResolveRuns = 1

(* C9: a transport error event in a state where the promise is pending    *)
(* (Connecting, Open, Draining, Closing) cancels both timers and rejects   *)
(* with "Transcription failed: <message>"; after an error event no timer   *)
(* is armed, no chunk is sent and the promise stays rejected.              *)
ErrorReceived ==
    \E i \in 1..Len(terminal) :
        /\ terminal[i].routine = "cleanupAndReject"
        /\ terminal[i].arg \notin {SendError, ConnectError}

C9_ErrorRejects ==
    [][/\ (lastEvent'.name = "error" /\ promise.state = "pending") =>
             promise' = [state |-> "rejected",
                         value |-> <<"Transcription failed: ", lastEvent'.arg>>]
       /\ ErrorReceived' =>
             /\ activeTimers' = {}
             /\ promise'.state = "rejected"
             /\ sent' = sent
             /\ pc' = pc]_vars

(* C9 witness: the error event arrived while the fallback timer was armed *)
(* (Draining), and rejected the session.                                   *)
C9_Witness ==
    /\ lastEvent.name = "error"
    /\ allInputAudioSent
    /\ sessionClosureTimeoutId = Undefined
    /\ closeCalls = 1
    /\ promise = [state |-> "rejected",
                  value |-> <<"Transcription failed: ", "e">>]

(* C10: when ai.live.connect throws, the promise is rejected with the     *)
(* connection error, and no timer is armed, no chunk sent, no close        *)
(* requested and no progress or transcript callback invoked.               *)
C10_HandshakeFailure ==
    pc = "failed" =>
        /\ promise = [state |-> "rejected", value |-> ConnectError]
        /\ activeTimers = {}
        /\ intervalId = Undefined
        /\ sessionClosureTimeoutId = Undefined
        /\ sent = <<>>
        /\ progressLog = <<>>
        /\ transcriptLog = <<>>
        /\ closeCalls = 0
        /\ Len(terminal) = 1

(* C10 witness: the handshake has failed *)
C10_Witness ==
    lastEvent.name = "connectfail" /\ pc = "failed" /\ promise.state = "rejected"

MessageStep == lastEvent'.name = "message" /\ received' = received + 1

(* C11: once the promise has settled, onTranscriptionUpdate is not called *)
(* again, whatever message arrives.                                        *)
C11_NoUpdateAfterSettle ==
    [][promise.state # "pending" => transcriptLog' = transcriptLog]_vars

(* C12: once the promise has settled no timer is armed, none is armed in  *)
(* any later step, and a further run of cleanup changes nothing.           *)
C12_NoTimerAfterSettle ==
    [][/\ promise'.state # "pending" => activeTimers' = {}
       /\ promise.state # "pending" =>
             /\ activeTimers = {}
             /\ intervalId' = intervalId
             /\ sessionClosureTimeoutId' = sessionClosureTimeoutId]_vars

(* C12 witness: a terminal routine, and so cleanup, has run a second time *)
(* on a settled session that had armed both timers.                        *)
C12_Witness ==
    /\ Len(terminal) = 2
    /\ allInputAudioSent
    /\ promise.state = "rejected"
    /\ activeTimers = {}

(* C13: in every step the finalized segments are unchanged or extended by *)
(* one element at the end, and a message that is not a turn boundary       *)
(* leaves them as they are (its text goes to the pending fragment).        *)
C13_SegmentsAppendOnly ==
    [][/\ \/ finalTranscriptionSegments' = finalTranscriptionSegments
          \/ /\ Len(finalTranscriptionSegments') =
                   Len(finalTranscriptionSegments) + 1
             /\ SubSeq(finalTranscriptionSegments', 1,
                       Len(finalTranscriptionSegments)) =
                   finalTranscriptionSegments
       /\ (MessageStep /\ ~lastEvent'.arg.turnComplete) =>
             /\ finalTranscriptionSegments' = finalTranscriptionSegments
             /\ latestNonFinalText' = PendingWith(lastEvent'.arg)]_vars

(* C13 witness: a second segment was committed after a first one *)
C13_Witness ==
    /\ lastEvent.name = "message"
    /\ lastEvent.arg.turnComplete
    /\ Len(finalTranscriptionSegments) = 2
    /\ finalTranscriptionSegments[1] # finalTranscriptionSegments[2]

(* The text shown after a message: the finalized segments joined, then    *)
(* the pending fragment, without leading and trailing whitespace.          *)
Shown(segs, pending) ==
    Stripped(SpaceJoined(segs) \o
             (IF pending # <<>> THEN <<" ">> \o pending ELSE <<>>))

CarriesText(m) == m.hasTranscription /\ m.text # <<>>

Updated == Len(transcriptLog') = Len(transcriptLog) + 1

(* C14 as stated: onTranscriptionUpdate is called for a message if and    *)
(* only if the message carries new text or is a turn boundary, with the    *)
(* finalized segments followed by the pending fragment.                    *)
C14_UpdateIffNewText ==
    [][MessageStep =>
          /\ Updated <=> (CarriesText(lastEvent'.arg)
                          \/ lastEvent'.arg.turnComplete)
          /\ Updated =>
                transcriptLog'[Len(transcriptLog')].text =
                   Shown(finalTranscriptionSegments', latestNonFinalText')
          /\ ~Updated => transcriptLog' = transcriptLog]_vars

(* C14 amended: onTranscriptionUpdate is called for a message if and only *)
(* if the message is a turn boundary or the text to show after it (the     *)
(* finalized segments followed by the pending fragment) is not blank; it   *)
(* is called once, with that text trimmed and isFinal = turnComplete.      *)
C14_UpdateIffTextToShow ==
    [][MessageStep =>
          /\ Updated <=>
                (lastEvent'.arg.turnComplete
                 \/ Shown(finalTranscriptionSegments',
                          latestNonFinalText') # <<>>)
          /\ Updated =>
                /\ SubSeq(transcriptLog', 1, Len(transcriptLog)) = transcriptLog
                /\ transcriptLog'[Len(transcriptLog')] =
                      [text |-> Shown(finalTranscriptionSegments',
                                      latestNonFinalText'),
                       isFinal |-> lastEvent'.arg.turnComplete]
          /\ ~Updated => transcriptLog' = transcriptLog]_vars

(* C14 witness: a message with neither text nor turn boundary was shown   *)
(* because a segment and a pending fragment were there to show.            *)
C14_Witness ==
    /\ lastEvent.name = "message"
    /\ ~lastEvent.arg.hasTranscription
    /\ ~lastEvent.arg.turnComplete
    /\ Len(transcriptLog) = received
    /\ latestNonFinalText # <<>>

(* C15: a tick that sends a chunk calls onProgressUpdate once, with the   *)
(* offset after that chunk over the buffer length, and every progress      *)
(* value reported lies between 0 and 100.                                  *)
C15_ProgressPerChunk ==
    [][/\ lastEvent'.name = "tick" /\ sent' # sent =>
             /\ progressLog' =
                   Append(progressLog, <<sent'[Len(sent')].to, audioLength>>)
             /\ sentAudioLength' = sent'[Len(sent')].to
       /\ \A i \in 1..Len(progressLog') :
             /\ progressLog'[i][2] > 0
             /\ 0 <= progressLog'[i][1]
             /\ progressLog'[i][1] <= progressLog'[i][2]]_vars

(* C15 witness: the last, shorter chunk brought the progress to 100 *)
C15_Witness ==
    /\ lastEvent.name = "tick"
    /\ Len(progressLog) = 2
    /\ progressLog[1][1] < progressLog[1][2]
    /\ progressLog[2] = <<audioLength, audioLength>>
    /\ audioLength < 2 * AUDIO_CHUNK_SIZE

----------------------------------------------------------------------------
(* Observations on a run of the orchestrator *)

ProgressValues == [i \in 1..Len(appProgress) |-> appProgress[i].value]

WhisperProgress ==
    SelectSeq(appProgress, LAMBDA p : p.by = "whisper")

(* seq without the repetitions of a value next to itself *)
RECURSIVE Collapse(_)
Collapse(seq) ==
    IF Len(seq) <= 1 THEN seq
    ELSE IF seq[1] = seq[2] THEN Collapse(Tail(seq))
    ELSE <<seq[1]>> \o Collapse(Tail(seq))

Invoked(stage) == \E i \in 1..Len(stages) : stages[i] = stage

IsPrefix(a, b) == Len(a) <= Len(b) /\ SubSeq(b, 1, Len(a)) = a

StagesInOrder ==
    IF service = "GEMINI_LIVE"
    THEN <<"extract", "resample", "stream", "summarize">>
    ELSE <<"extract", "wav", "whisper", "summarize">>

StatesInOrder == <<"UPLOADING", "TRANSCRIBING", "SUMMARIZING", "COMPLETED">>

(* C16: a successful run on the Whisper path shows the progress values    *)
(* 0, then the small nonzero marker, then 100, in that order, and makes    *)
(* exactly one transcript update, with isFinal = true.                     *)
C16_WhisperProgressSequence ==
    (whisper.state = "resolved" /\ appState \in {"SUMMARIZING", "COMPLETED"}) =>
        /\ Collapse(ProgressValues) = <<0, 1, 100>>
        /\ Len(appUpdates) = 1
        /\ appUpdates[1].isFinal

(* C17: when the Whisper request returns a non-success response,          *)
(* transcribeWithWhisper rejects with an error carrying the status and     *)
(* the body, the last progress value it reports is 0, it never reports     *)
(* 100 and it never calls onTranscriptionUpdate.                           *)
C17_WhisperErrorResponse ==
    response.status \in ErrorStatuses =>
        /\ whisper.state = "rejected"
        /\ whisper.value =
              <<"Failed to transcribe with Whisper: ", "OpenAI API error: ",
                response.status, " - ">> \o response.body
        /\ WhisperProgress # <<>>
        /\ WhisperProgress[Len(WhisperProgress)].value = 0
        /\ \A i \in 1..Len(WhisperProgress) : WhisperProgress[i].value # 100
        /\ appUpdates = <<>>

(* C17 witness: the request was refused with status 401 and a body *)
C17_Witness ==
    /\ response = [ok |-> FALSE, status |-> "401", body |-> <<"b">>]
    /\ whisper.state = "rejected"
    /\ Len(WhisperProgress) = 2

(* C18: a stage that fails ends the run: the state is ERROR with exactly  *)
(* one error message, the failed stage is the last one invoked, nothing    *)
(* more happens in that run, and no stage is invoked twice in a run.       *)
C18_FailureShortCircuits ==
    [][/\ \A i, j \in 1..Len(stages') :
             stages'[i] = stages'[j] => i = j
       /\ failed' # "none" <=> appState' = "ERROR"
       /\ appState' = "ERROR" =>
             /\ Len(errorMessages') = 1
             /\ apc' = "done"
             /\ IF failed' = "precheck" THEN stages' = <<>>
                ELSE stages' # <<>> /\ stages'[Len(stages')] = failed'
       /\ (appState = "ERROR" /\ runs' = runs) =>
             /\ appState' = "ERROR"
             /\ stages' = stages
             /\ errorMessages' = errorMessages]_vars

(* C18 witness: the second run of the orchestrator failed in              *)
(* summarization, its last stage.                                          *)
C18_Witness ==
    /\ runs = 2
    /\ appState = "ERROR"
    /\ failed = "summarize"
    /\ Len(stages) = 4

(* C19: the stages are invoked in the order extraction, (resampling,)     *)
(* backend, summarization; the backend only once extraction has given a    *)
(* buffer and its duration is exposed; summarizeText only with the         *)
(* fullTranscription of the backend; COMPLETED only after the summary      *)
(* returned and after UPLOADING, TRANSCRIBING, SUMMARIZING in that order.  *)
C19_StagesInOrder ==
    /\ IsPrefix(stages, StagesInOrder)
    /\ \A i \in 1..Len(stateLog) :
          \/ i <= 4 /\ stateLog[i] = StatesInOrder[i]
          \/ i = Len(stateLog) /\ stateLog[i] = "ERROR"
          \/ i = 5 /\ stateLog[i] = "IDLE"
    /\ (appState # "IDLE" /\ (Invoked("stream") \/ Invoked("whisper"))) =>
          /\ audioBuffer = file
          /\ audioBuffer.sampleRate # 0
          /\ totalAudioDuration = <<file.length, file.sampleRate>>
          /\ Invoked("stream") => resampled \in {"same", "rendered"}
    /\ Invoked("summarize") =>
          /\ transcriptionResult # None
          /\ summarizeArg = transcriptionResult
    /\ appState = "COMPLETED" =>
          /\ stages = StagesInOrder
          /\ stateLog = StatesInOrder
          /\ summary = <<"summary: ">> \o transcriptionResult

(* C19 witness: a run on the streaming path, with resampling, COMPLETED *)
C19_Witness ==
    /\ appState = "COMPLETED"
    /\ service = "GEMINI_LIVE"
    /\ resampled = "rendered"
    /\ transcriptionResult = <<"a">>

(* C20: once extractAudioBufferFromVideoFile has returned or thrown, the  *)
(* AudioContext it created is closed: none stays open.                     *)
C20_ContextClosed ==
    apc # "extracting" => openContexts = 0
----------------------------------------------------------------------------
(* The number of chunks of size c that cover n samples: ceil(n / c) *)
CeilDiv(n, c) == (n + c - 1) \div c

(* Chunk i of a buffer of n samples cut every c samples: the samples     *)
(* c*(i-1) .. c*i - 1, as far as the buffer goes.                          *)
Piece(i, n, c) ==
    [from |-> c * (i - 1), to |-> IF c * i <= n THEN c * i ELSE n]

(* C21: a session that has sent all of a non-empty buffer of N samples    *)
(* has transmitted ceil(N/C) chunks, each of C samples but the last, which *)
(* has N - C*(ceil(N/C)-1), and the chunks put end to end are the buffer:  *)
(* chunk i is the i-th piece of the buffer, so every sample index is sent  *)
(* once, in order.                                                         *)
C21_PacketizeExact ==
    (allInputAudioSent /\ audioLength > 0) =>
        /\ Len(sent) = CeilDiv(audioLength, AUDIO_CHUNK_SIZE)
        /\ \A i \in 1..(Len(sent) - 1) :
              sent[i].to - sent[i].from = AUDIO_CHUNK_SIZE
        /\ sent[Len(sent)].to - sent[Len(sent)].from =
              audioLength - AUDIO_CHUNK_SIZE * (Len(sent) - 1)
        /\ \A i \in 1..Len(sent) :
              sent[i] = Piece(i, audioLength, AUDIO_CHUNK_SIZE)

(* C21 witness: a buffer of one chunk and one sample was sent whole *)
C21_Witness ==
    /\ allInputAudioSent
    /\ audioLength = AUDIO_CHUNK_SIZE + 1
    /\ Len(sent) = 2
    /\ promise.state = "pending"
(* A turn-complete message has just been handled with all input sent *)
TurnCompleteWhileDraining ==
    /\ lastEvent.name = "message"
    /\ lastEvent.arg.turnComplete
    /\ allInputAudioSent

(* C29: once a turn-complete message has been handled while the session   *)
(* is draining, the fallback timer is cancelled and its callback never     *)
(* runs afterwards.                                                        *)
C29_FallbackCancelled ==
    [](TurnCompleteWhileDraining =>
          [](TimeoutTimer \notin activeTimers /\ lastEvent.name # "fallback"))

(* C29 witness: the timer was armed, a turn-complete message cancelled it  *)
(* and requested the only close, and the session has resolved.             *)
C29_Witness ==
    /\ TurnCompleteWhileDraining
    /\ closeCalls = 1
    /\ TimeoutTimer \notin activeTimers
    /\ sessionClosureTimeoutId = TimeoutTimer
    /\ transport = "closing"

(* C30: in every state where all input has been sent, the promise has not *)
(* settled and no close has been requested, the fallback timer is armed;   *)
(* a turn-complete message never cancels it without requesting close in    *)
(* the same step.                                                          *)
C30_DrainingNeverHangs ==
    [][/\ (allInputAudioSent' /\ promise'.state = "pending" /\ closeCalls' = 0)
             => TimeoutTimer \in activeTimers'
       /\ (TimeoutTimer \in activeTimers /\ TimeoutTimer \notin activeTimers'
             /\ lastEvent'.name = "message")
             => closeCalls' = closeCalls + 1]_vars

(* C30 witness: draining, nothing has asked to close, the timer is armed,  *)
(* and a message without a turn boundary has been handled meanwhile.       *)
C30_Witness ==
    /\ allInputAudioSent
    /\ promise.state = "pending"
    /\ closeCalls = 0
    /\ TimeoutTimer \in activeTimers
    /\ lastEvent.name = "message"
----------------------------------------------------------------------------
(* Observations on a call of a function of audioUtils.ts *)

RECURSIVE Gcd(_, _)
Gcd(a, b) == IF b = 0 THEN a ELSE Gcd(b, a % b)

(* ceil(length * target / source), in exact arithmetic *)
ExactLength(length, source, target) ==
    LET g == Gcd(target, source)
    IN  CeilDiv(length * (target \div g), source \div g)

(* C22: resampleAudioBuffer from R1 to R2 # R1 gives a buffer of length   *)
(* exactly ceil(originalLength * R2 / R1) with the same channel count;    *)
(* for R1 = R2 it returns the input buffer itself.                         *)
C22_ResampledLength ==
    call.op = "resample" =>
        IF call.arg.buffer.sampleRate = call.arg.target
        THEN /\ call.out.same
             /\ call.out.length = call.arg.buffer.length
             /\ call.out.sampleRate = call.arg.buffer.sampleRate
             /\ call.out.numberOfChannels = call.arg.buffer.numberOfChannels
        ELSE /\ ~call.out.same
             /\ call.out.numberOfChannels = call.arg.buffer.numberOfChannels
             /\ call.out.length =
                   ExactLength(call.arg.buffer.length,
                               call.arg.buffer.sampleRate, call.arg.target)
(* The bytes at a 0-based offset read as little-endian integers *)
U16LE(bytes, offset) == bytes[offset + 1] + 256 * bytes[offset + 2]

U32LE(bytes, offset) ==
    bytes[offset + 1] + 256 * bytes[offset + 2] + 65536 * bytes[offset + 3]
    + 16777216 * bytes[offset + 4]

S16LE(bytes, offset) ==
    IF U16LE(bytes, offset) >= 32768 THEN U16LE(bytes, offset) - 65536
    ELSE U16LE(bytes, offset)

(* C23: the data chunk of createWavBlobFromAudioBuffer holds interleaved  *)
(* 16-bit samples: with K channels, sample j of channel c is stored at     *)
(* byte offset 44 + 2*(j*K + c), for every K >= 1.                         *)
C23_WavInterleaved ==
    call.op = "wav" =>
        \A c \in 0..(call.arg.numberOfChannels - 1),
           j \in 0..(call.arg.length - 1) :
            S16LE(call.out.bytes, 44 + 2 * (j * call.arg.numberOfChannels + c))
               = WavSample(call.arg.channelData[c + 1][j + 1])

(* C24: createWavBlobFromAudioBuffer produces a 44-byte header followed   *)
(* by length*channels*2 data bytes, with RIFF size = 36 + data length,     *)
(* format 1, bit depth 16, the channel count and sample rate of the        *)
(* source, byte rate = rate*channels*2, block align = channels*2 and       *)
(* data-chunk length = length*channels*2.                                  *)
C24_WavHeader ==
    call.op = "wav" =>
        LET bytes == call.out.bytes
            K == call.arg.numberOfChannels
            dataLength == call.arg.length * K * 2
        IN  /\ Len(bytes) = 44 + dataLength
            /\ SubSeq(bytes, 1, 4) = <<82, 73, 70, 70>>
            /\ U32LE(bytes, 4) = 36 + dataLength
            /\ SubSeq(bytes, 9, 16) = <<87, 65, 86, 69, 102, 109, 116, 32>>
            /\ U32LE(bytes, 16) = 16
            /\ U16LE(bytes, 20) = 1
            /\ U16LE(bytes, 22) = K
            /\ U32LE(bytes, 24) = call.arg.sampleRate
            /\ U32LE(bytes, 28) = call.arg.sampleRate * K * 2
            /\ U16LE(bytes, 32) = K * 2
            /\ U16LE(bytes, 34) = 16
            /\ SubSeq(bytes, 37, 40) = <<100, 97, 116, 97>>
            /\ U32LE(bytes, 40) = dataLength
            /\ \A k \in 1..Len(bytes) : bytes[k] \in 0..255

(* C24 witness: a stereo buffer of two frames at 44100 Hz was encoded *)
C24_Witness ==
    /\ call.op = "wav"
    /\ call.arg.numberOfChannels = 2
    /\ call.arg.length = 2
    /\ call.arg.sampleRate = 44100
    /\ Len(call.out.bytes) = 52

(* The distance of a / SampleScale from the integer v, in units of         *)
(* 1 / SampleScale.                                                        *)
Distance(a, v) == IF a >= v * SampleScale THEN a - v * SampleScale
                  ELSE v * SampleScale - a

(* s clamped to [-1, 1], for s = n / SampleScale *)
Clipped(n) == IF n > SampleScale THEN SampleScale
              ELSE IF n < 0 - SampleScale THEN 0 - SampleScale ELSE n

(* C25: createPcmBlob converts each sample s to the 16-bit integer        *)
(* round(clamp(s, -1, 1) * 32767): the integer nearest to the scaled       *)
(* clamped value, also for samples outside [-1, 1].                        *)
C25_PcmRounds ==
    call.op = "pcm" =>
        /\ Len(call.out.int16) = Len(call.arg)
        /\ \A i \in 1..Len(call.arg) :
              2 * Distance(Clipped(call.arg[i]) * 32767, call.out.int16[i])
                 <= SampleScale

(* C26: s = 1.0 maps to 32767 in both conversions, s = -1.0 to -32768 in  *)
(* the WAV encoder and to -32767 in the streaming packetizer, every output *)
(* lies in [-32768, 32767], and the mapping is monotonic.  The WAV values  *)
(* are read from the data chunk of a mono buffer.                          *)
C26_SixteenBitEnds ==
    /\ call.op = "pcm" =>
          /\ \A i \in 1..Len(call.arg) :
                /\ call.arg[i] = SampleScale => call.out.int16[i] = 32767
                /\ call.arg[i] = 0 - SampleScale => call.out.int16[i] = -32767
                /\ call.out.int16[i] \in -32768..32767
          /\ \A i, j \in 1..Len(call.arg) :
                call.arg[i] <= call.arg[j]
                   => call.out.int16[i] <= call.out.int16[j]
    /\ (call.op = "wav" /\ call.arg.numberOfChannels = 1) =>
          LET x == call.arg.channelData[1]
              y == [j \in 1..call.arg.length |->
                       S16LE(call.out.bytes, 44 + 2 * (j - 1))]
          IN  /\ \A j \in 1..Len(x) :
                    /\ x[j] = SampleScale => y[j] = 32767
                    /\ x[j] = 0 - SampleScale => y[j] = -32768
                    /\ y[j] \in -32768..32767
              /\ \A i, j \in 1..Len(x) : x[i] <= x[j] => y[i] <= y[j]

(* C26 witness: the WAV encoder was given -1.0 and 1.0 in a mono buffer *)
C26_Witness ==
    /\ call.op = "wav"
    /\ call.arg.numberOfChannels = 1
    /\ call.arg.channelData[1] = <<0 - SampleScale, SampleScale>>
    /\ SubSeq(call.out.bytes, 45, 48) = <<0, 128, 255, 127>>

(* C27: the byte-to-string encoding of streaming packets is lossless:     *)
(* decode(encode(b)) is b, same length and same bytes in the same order.   *)
C27_EncodeLossless ==
    call.op = "encode" =>
        /\ Len(call.out.decoded) = Len(call.arg)
        /\ \A i \in 1..Len(call.arg) : call.out.decoded[i] = call.arg[i]
        /\ \A k \in 1..Len(call.out.encoded) :
              \/ call.out.encoded[k] = "="
              \/ \E s \in 1..64 : Base64Chars[s] = call.out.encoded[k]

(* C27 witness: two bytes with their high bits set were encoded, with     *)
(* padding, and decoded.                                                   *)
C27_Witness ==
    /\ call.op = "encode"
    /\ call.arg = <<255, 128>>
    /\ call.out.encoded = <<"/", "4", "A", "=">>
    /\ call.out.decoded = <<255, 128>>
----------------------------------------------------------------------------
(* The 10-second, 44100 Hz mono buffer on the streaming path *)
TenSeconds ==
    call.arg.buffer = [numberOfChannels |-> 1, length |-> 441000,
                       sampleRate |-> 44100]

(* The number of samples of a chunk sent *)
Size(slice) == slice.to - slice.from

(* C28, as stated: the 10-second 44100 Hz mono buffer resampled to 16000  *)
(* Hz gives 160000 samples; at chunk size 4096 it yields 40 complete       *)
(* chunks; the progress reported after chunk 20 is 50%.                    *)
C28_ScenarioFortyComplete ==
    TenSeconds =>
        /\ audioLength = 160000
        /\ allInputAudioSent =>
              /\ Len(sent) = 40
              /\ \A i \in 1..Len(sent) : Size(sent[i]) = AUDIO_CHUNK_SIZE
        /\ Len(sent) >= 20 => 2 * progressLog[20][1] = progressLog[20][2]

(* C28, amended: the 10-second 44100 Hz mono buffer resampled to 16000 Hz *)
(* gives 160000 samples; at chunk size 4096 it yields 40 chunks, 39 of     *)
(* 4096 samples and a last one of 256; the progress reported after chunk   *)
(* 20 is 81920 / 160000, that is 51.2%.                                    *)
C28_ScenarioFortyChunks ==
    TenSeconds =>
        /\ audioLength = 160000
        /\ allInputAudioSent =>
              /\ Len(sent) = 40
              /\ \A i \in 1..39 : Size(sent[i]) = AUDIO_CHUNK_SIZE
              /\ Size(sent[40]) = 256
        /\ Len(sent) >= 20 =>
              /\ progressLog[20] = <<20 * AUDIO_CHUNK_SIZE, 160000>>
              /\ 1000 * progressLog[20][1] = 512 * progressLog[20][2]

(* C28 witness: the whole 10-second buffer was streamed and the session   *)
(* resolved.                                                               *)
C28_Witness ==
    /\ TenSeconds
    /\ allInputAudioSent
    /\ Len(sent) = 40
    /\ Len(progressLog) = 41
    /\ promise.state = "resolved"
(***************************************************************************)
(* C31: transport close (session.close()) is requested at most once per    *)
(* streaming session, over all interleavings of turn-complete messages,    *)
(* the fallback timer firing, send failures and transport error events.    *)
(***************************************************************************)
C31_CloseAtMostOnce ==
    closeCalls <= 1
(***************************************************************************)
(* C32: after the promise returned by transcribeAudioStream has settled,   *)
(* onProgressUpdate is never invoked again; in particular a session that   *)
(* has rejected never reports progress 100 afterwards.                     *)
(***************************************************************************)
C32_NoProgressAfterSettle ==
    [][promise.state # "pending" => progressLog' = progressLog]_vars
(***************************************************************************)
(* C33: pending text is dropped at close: the resolved fullTranscription   *)
(* contains only segments committed by a turn-complete message, so text    *)
(* received after the last turn-complete is not part of the result, and a  *)
(* session closed without any turn-complete resolves with the empty string *)
(* whatever text was received.                                             *)
(***************************************************************************)
FinalUpdates == { i \in 1..Len(transcriptLog) : transcriptLog[i].isFinal }

LastFinalUpdate == CHOOSE i \in FinalUpdates : \A j \in FinalUpdates : j <= i

C33_PendingDroppedAtClose ==
    promise.state = "resolved" =>
        promise.value = IF FinalUpdates = {} THEN <<>>
                        ELSE transcriptLog[LastFinalUpdate].text

(* C33 witness: a session resolved with the committed "a" while the text   *)
(* "b", received after the turn boundary, is still pending                 *)
C33_Witness ==
    /\ promise.state = "resolved"
    /\ promise.value = <<"a">>
    /\ latestNonFinalText = <<"b">>
(***************************************************************************)
(* C34: if the transport closes (onclose) while unsent samples remain, the *)
(* session cancels the pacing timer, reports progress 100 and runs the     *)
(* resolving routine with the segments finalized so far (a pending promise *)
(* resolves, it is not rejected); and no chunk is sent afterwards.         *)
(***************************************************************************)
C34_EarlyCloseResolves ==
    [][/\ (lastEvent'.name = "close" /\ currentOffset < audioLength) =>
             /\ activeTimers' = {}
             /\ intervalId' = Undefined
             /\ progressLog' = Append(progressLog, <<1, 1>>)
             /\ terminal' =
                   Append(terminal,
                          [routine |-> "cleanupAndResolve",
                           arg |-> Stripped(SpaceJoined(
                                       finalTranscriptionSegments)),
                           effect |-> TRUE])
             /\ promise.state = "pending" =>
                   promise' = [state |-> "resolved",
                               value |-> Stripped(SpaceJoined(
                                             finalTranscriptionSegments))]
             /\ sent' = sent
       /\ transport = "closed" => sent' = sent]_vars

(* C34 witness: the server closed the connection after one chunk of two,   *)
(* and the session resolved with the one segment finalized by then         *)
C34_Witness ==
    /\ transport = "closed"
    /\ lastEvent.name = "close"
    /\ Len(sent) = 1
    /\ currentOffset < audioLength
    /\ promise = [state |-> "resolved", value |-> <<"a">>]
    /\ activeTimers = {}
(***************************************************************************)
(* C35: a turn-complete message received while unsent samples remain       *)
(* commits the pending fragment but neither requests transport close nor   *)
(* stops the pacing timer; a turn-complete message requests transport      *)
(* close only when all input audio has already been sent.                  *)
(***************************************************************************)
TurnCompleteHandled ==
    /\ received' = received + 1
    /\ lastEvent'.name = "message"
    /\ lastEvent'.arg.turnComplete

TextAtBoundary ==
    latestNonFinalText \o
        (IF lastEvent'.arg.hasTranscription THEN lastEvent'.arg.text ELSE <<>>)

C35_TurnCompleteMidStream ==
    [][TurnCompleteHandled =>
          /\ currentOffset < audioLength =>
                /\ closeCalls' = closeCalls
                /\ transport' = transport
                /\ intervalId' = intervalId
                /\ (IntervalTimer \in activeTimers') =
                       (IntervalTimer \in activeTimers)
                /\ finalTranscriptionSegments' =
                       IF Stripped(TextAtBoundary) # <<>>
                       THEN Append(finalTranscriptionSegments,
                                   Stripped(TextAtBoundary))
                       ELSE finalTranscriptionSegments
          /\ closeCalls' # closeCalls =>
                allInputAudioSent /\ currentOffset = audioLength]_vars

(* C35 witness: a turn boundary handled after one chunk of two committed   *)
(* the segment "a"; the pacing timer still runs and no close was requested *)
C35_Witness ==
    /\ lastEvent.name = "message"
    /\ lastEvent.arg.turnComplete
    /\ Len(sent) = 1
    /\ currentOffset < audioLength
    /\ finalTranscriptionSegments = << <<"a">> >>
    /\ IntervalTimer \in activeTimers
    /\ closeCalls = 0
    /\ transport = "open"
(***************************************************************************)
(* C36: within one streaming session the sequence of values passed to      *)
(* onProgressUpdate is non-decreasing, and if the session resolves the     *)
(* last value passed is 100.                                               *)
(***************************************************************************)
NotAbove(p, q) == p[1] * q[2] <= q[1] * p[2]

C36_ProgressMonotone ==
    /\ \A i \in 1..(Len(progressLog) - 1) :
          NotAbove(progressLog[i], progressLog[i + 1])
    /\ promise.state = "resolved" =>
          /\ progressLog # <<>>
          /\ progressLog[Len(progressLog)][1] = progressLog[Len(progressLog)][2]

(* C36 witness: a resolved session that reported 50, then 100 for the      *)
(* second chunk, then the final 100                                        *)
C36_Witness ==
    /\ promise.state = "resolved"
    /\ Len(progressLog) = 3
    /\ progressLog[1][1] * 2 = progressLog[1][2]
    /\ progressLog[2][1] = progressLog[2][2]
(***************************************************************************)
(* C37: for an empty audio buffer (0 samples) the first pacing tick enters *)
(* Draining directly: no packet is transmitted, no progress value is       *)
(* computed from a division by the zero length (the only value ever        *)
(* reported is the final 100), the fallback timer is armed, and the        *)
(* session still resolves (unless a transport error rejects it first),     *)
(* with progress 100 and, the backend having sent no transcription text,   *)
(* with the empty transcription.                                           *)
(***************************************************************************)
PacingEvents == {"tick", "sendfail", "drain"}

NoTextReceived ==
    latestNonFinalText = <<>> /\ finalTranscriptionSegments = <<>>

EmptyBufferState ==
    audioLength = 0 =>
        /\ sent = <<>>
        /\ currentOffset = 0
        /\ \A i \in 1..Len(progressLog) : progressLog[i] = <<1, 1>>
        /\ promise.state = "resolved" =>
              /\ progressLog = << <<1, 1>> >>
              /\ NoTextReceived => promise.value = <<>>

EmptyBufferFirstTick ==
    (audioLength = 0 /\ lastEvent'.name \in PacingEvents
                     /\ lastEvent.name \notin PacingEvents) =>
        /\ lastEvent'.name = "drain"
        /\ allInputAudioSent'
        /\ sent' = <<>>
        /\ progressLog' = progressLog
        /\ IntervalTimer \notin activeTimers'
        /\ TimeoutTimer \in activeTimers'
        /\ sessionClosureTimeoutId' = TimeoutTimer

C37_EmptyBufferDrains ==
    /\ []EmptyBufferState
    /\ [][EmptyBufferFirstTick]_vars
    /\ (audioLength = 0 /\ pc = "connected" /\ promise.state = "pending")
          ~> (promise.state = "resolved" \/ RejectRan)

(* C37 witness: an empty buffer, drained by its first tick and closed by   *)
(* the fallback timer, has resolved with the empty transcription after a   *)
(* single progress report of 100                                           *)
C37_Witness ==
    /\ audioLength = 0
    /\ allInputAudioSent
    /\ received = 0
    /\ sent = <<>>
    /\ closeCalls = 1
    /\ promise = [state |-> "resolved", value |-> <<>>]
    /\ progressLog = << <<1, 1>> >>
====
